---- MODULE Spec2Model ----
(***************************************************************************)
(* A model of the PyTA indicator library (src/pyta).  The caller holds a   *)
(* column-labelled table (a pandas DataFrame); every indicator is a        *)
(* function of that table and of numeric parameters.  The model keeps the  *)
(* caller's table, the call in progress, the value it returned, and the    *)
(* locals of IVBINOMIAL's loop, which it follows pass by pass.             *)
(*                                                                         *)
(* Numbers are double-precision floats in the library.  They are modelled  *)
(* as exact extended rationals [n, d]: d > 0 is the rational n/d in lowest *)
(* terms, d = 0 is one of the three IEEE specials NaN (n = 0), +inf        *)
(* (n = 1) and -inf (n = -1).  Rounding and the sign of zero are not       *)
(* modelled.  NaN is pandas' missing marker.                               *)
(***************************************************************************)
EXTENDS Integers, Sequences, FiniteSets, TLC

VARIABLES data, pc, call, result, loop

vars == <<data, pc, call, result, loop>>

-----------------------------------------------------------------------------
(* Bounds of the model.                                                    *)

MaxLen == 3

MaxPrice == 2

MaxWindow == 3

MaxLinLen == 5

MaxConstLen == 5

MaxT3Len == 4

MaxCandle == 1

MaxRows == 2

MaxVRows == 3

MaxVolume == 2

MaxCols == 2

MaxHTLen == 5

MaxMALen == 4

\* MACD, MACDEXT and MACDFIX are called on tables of at most MaxMACDLen rows.
MaxMACDLen == 2

\* High and Low prices are 0..MaxHL, on tables of at most MaxHLRows rows.
MaxHL == 2

MaxHLRows == 3

\* The largest max_iterations IVBINOMIAL is called with.
MaxIterations == 201

-----------------------------------------------------------------------------
(* Float arithmetic (Python / numpy / pandas elementwise operators).       *)

RECURSIVE GCD(_, _)
GCD(a, b) == IF b = 0 THEN a ELSE GCD(b, a % b)

AbsInt(i) == IF i < 0 THEN -i ELSE i

SignInt(i) == IF i > 0 THEN 1 ELSE IF i < 0 THEN -1 ELSE 0

Norm(n, d) ==
    LET g == GCD(AbsInt(n), d)
    IN  [n |-> SignInt(n) * (AbsInt(n) \div g), d |-> d \div g]

Frac(n, d) == IF d < 0 THEN Norm(-n, -d) ELSE Norm(n, d)

Q(i) == [n |-> i, d |-> 1]

NaN == [n |-> 0, d |-> 0]

PosInf == [n |-> 1, d |-> 0]

NegInf == [n |-> -1, d |-> 0]

Zero == Q(0)

One == Q(1)

IsNaN(a) == a.d = 0 /\ a.n = 0

IsInf(a) == a.d = 0 /\ a.n # 0

IsFinite(a) == a.d > 0

Sign(a) == SignInt(a.n)

Neg(a) == [n |-> -a.n, d |-> a.d]

Abs(a) == [n |-> AbsInt(a.n), d |-> a.d]

Add(a, b) ==
    IF IsNaN(a) \/ IsNaN(b) THEN NaN
    ELSE IF IsInf(a) /\ IsInf(b) THEN (IF a.n = b.n THEN a ELSE NaN)
    ELSE IF IsInf(a) THEN a
    ELSE IF IsInf(b) THEN b
    ELSE LET g == GCD(a.d, b.d)
         IN  Frac(a.n * (b.d \div g) + b.n * (a.d \div g), (a.d \div g) * b.d)

Sub(a, b) == Add(a, Neg(b))

Mul(a, b) ==
    IF IsNaN(a) \/ IsNaN(b) THEN NaN
    ELSE IF IsInf(a) \/ IsInf(b)
         THEN (IF Sign(a) * Sign(b) = 0 THEN NaN
               ELSE [n |-> Sign(a) * Sign(b), d |-> 0])
    ELSE LET g1 == GCD(AbsInt(a.n), b.d)
             g2 == GCD(AbsInt(b.n), a.d)
         IN  Frac((a.n \div g1) * (b.n \div g2), (a.d \div g2) * (b.d \div g1))

\* x / y as numpy divides floats: a zero divisor gives a signed infinity, or
\* NaN for 0/0; nothing is raised.
Div(a, b) ==
    IF IsNaN(a) \/ IsNaN(b) THEN NaN
    ELSE IF IsInf(a) /\ IsInf(b) THEN NaN
    ELSE IF IsInf(b) THEN Zero
    ELSE IF IsInf(a) THEN [n |-> Sign(a) * (IF b.n < 0 THEN -1 ELSE 1), d |-> 0]
    ELSE IF b.n = 0 THEN (IF a.n = 0 THEN NaN ELSE [n |-> Sign(a), d |-> 0])
    ELSE Mul(a, Frac(b.d, b.n))

\* a < b and a > b on floats: every comparison with NaN is false.
Lt(a, b) ==
    /\ ~IsNaN(a)
    /\ ~IsNaN(b)
    /\ a # b
    /\ IF IsInf(a) THEN a.n < 0
       ELSE IF IsInf(b) THEN b.n > 0
       ELSE a.n * b.d < b.n * a.d

Gt(a, b) == Lt(b, a)

RECURSIVE Pow(_, _)
Pow(a, k) == IF k = 0 THEN One ELSE Mul(a, Pow(a, k - 1))

\* floor(sqrt(x)) of a natural number, by bisection on lo..hi.
RECURSIVE ISqrtIn(_, _, _)
ISqrtIn(x, lo, hi) ==
    IF lo >= hi THEN lo
    ELSE LET mid == (lo + hi + 1) \div 2
         IN  IF mid * mid <= x THEN ISqrtIn(x, mid, hi) ELSE ISqrtIn(x, lo, mid - 1)

SqrtScale == 100

\* numpy sqrt, to SqrtScale-ths: exact on the squares of such fractions,
\* NaN below zero.
Sqrt(a) ==
    IF IsNaN(a) THEN NaN
    ELSE IF IsInf(a) THEN (IF a.n > 0 THEN PosInf ELSE NaN)
    ELSE IF a.n < 0 THEN NaN
    ELSE LET x == (a.n * SqrtScale * SqrtScale) \div a.d
         IN  Frac(ISqrtIn(x, 0, x), SqrtScale)

-----------------------------------------------------------------------------
(* Series (pandas.Series): sequences of floats, positions 1..n.            *)

SAdd(x, y) == [i \in 1..Len(x) |-> Add(x[i], y[i])]

SSub(x, y) == [i \in 1..Len(x) |-> Sub(x[i], y[i])]

SMul(x, y) == [i \in 1..Len(x) |-> Mul(x[i], y[i])]

SDiv(x, y) == [i \in 1..Len(x) |-> Div(x[i], y[i])]

SAbs(x) == [i \in 1..Len(x) |-> Abs(x[i])]

SScale(c, x) == [i \in 1..Len(x) |-> Mul(c, x[i])]

SPlus(x, c) == [i \in 1..Len(x) |-> Add(x[i], c)]

\* Series.shift(k): position i takes the value k places earlier, NaN when
\* that place is outside the series; k may be zero or negative.
Shift(x, k) ==
    [i \in 1..Len(x) |-> IF i - k >= 1 /\ i - k <= Len(x) THEN x[i - k] ELSE NaN]

\* Series.diff(k)
Diff(x, k) == SSub(x, Shift(x, k))

RECURSIVE SumSeq(_)
SumSeq(s) == IF s = <<>> THEN Zero ELSE Add(s[1], SumSeq(Tail(s)))

RECURSIVE Observed(_)
Observed(s) ==
    IF s = <<>> THEN <<>>
    ELSE IF IsFinite(s[1]) THEN <<s[1]>> \o Observed(Tail(s))
    ELSE Observed(Tail(s))

\* The window of size w ending at position t, clipped at the start.
WindowAt(x, t, w) ==
    LET lo == IF t - w + 1 < 1 THEN 1 ELSE t - w + 1
    IN  SubSeq(x, lo, t)

Mean(s) == Div(SumSeq(s), Q(Len(s)))

\* The sample variance (ddof = 1); NaN on fewer than two observations.
Variance(s) ==
    IF Len(s) < 2 THEN NaN
    ELSE LET m == Mean(s)
             sq == [i \in 1..Len(s) |-> Mul(Sub(s[i], m), Sub(s[i], m))]
         IN  Div(SumSeq(sq), Q(Len(s) - 1))

\* Series.rolling(window, min_periods): the reducer is applied to the
\* observations (pandas turns infinities into NaN first) of each window
\* that holds at least min_periods of them, and at least one.
RollingObs(x, t, w) == Observed(WindowAt(x, t, w))

RollingMean(x, w, minp) ==
    [t \in 1..Len(x) |->
        LET obs == RollingObs(x, t, w)
        IN  IF Len(obs) >= minp /\ Len(obs) > 0 THEN Mean(obs) ELSE NaN]

RollingVar(x, w, minp) ==
    [t \in 1..Len(x) |->
        LET obs == RollingObs(x, t, w)
        IN  IF Len(obs) >= minp /\ Len(obs) > 0 THEN Variance(obs) ELSE NaN]

RollingStd(x, w, minp) ==
    LET v == RollingVar(x, w, minp)
    IN  [t \in 1..Len(x) |-> Sqrt(v[t])]

-----------------------------------------------------------------------------
(* Column labels (Python str), as sequences of characters.                 *)

Uppers ==
    << "A", "B", "C", "D", "E", "F", "G", "H", "I", "J", "K", "L", "M",
       "N", "O", "P", "Q", "R", "S", "T", "U", "V", "W", "X", "Y", "Z" >>

Lowers ==
    << "a", "b", "c", "d", "e", "f", "g", "h", "i", "j", "k", "l", "m",
       "n", "o", "p", "q", "r", "s", "t", "u", "v", "w", "x", "y", "z" >>

LowerChar(ch) ==
    IF \E i \in 1..Len(Uppers) : Uppers[i] = ch
    THEN Lowers[CHOOSE i \in 1..Len(Uppers) : Uppers[i] = ch]
    ELSE ch

UpperChar(ch) ==
    IF \E i \in 1..Len(Lowers) : Lowers[i] = ch
    THEN Uppers[CHOOSE i \in 1..Len(Lowers) : Lowers[i] = ch]
    ELSE ch

\* str.lower()
Lower(s) == [i \in 1..Len(s) |-> LowerChar(s[i])]

\* str.capitalize(): the first character upper-cased, all others lower-cased.
Capitalize(s) ==
    [i \in 1..Len(s) |-> IF i = 1 THEN UpperChar(s[i]) ELSE LowerChar(s[i])]

L_Open == << "O", "p", "e", "n" >>

L_High == << "H", "i", "g", "h" >>

L_Low == << "L", "o", "w" >>

L_Close == << "C", "l", "o", "s", "e" >>

L_Volume == << "V", "o", "l", "u", "m", "e" >>

L_Pivot == << "P", "i", "v", "o", "t" >>

L_Resistance1 == << "R", "e", "s", "i", "s", "t", "a", "n", "c", "e", "1" >>

L_Support1 == << "S", "u", "p", "p", "o", "r", "t", "1" >>

L_Resistance2 == << "R", "e", "s", "i", "s", "t", "a", "n", "c", "e", "2" >>

L_Support2 == << "S", "u", "p", "p", "o", "r", "t", "2" >>

columns_to_standardize ==
    { << "d", "a", "t", "e" >>,
      << "o", "p", "e", "n" >>,
      << "h", "i", "g", "h" >>,
      << "l", "o", "w" >>,
      << "c", "l", "o", "s", "e" >>,
      << "v", "o", "l", "u", "m", "e" >>,
      << "d", "i", "v", "i", "d", "e", "n", "d", "s" >>,
      << "s", "t", "o", "c", "k", " ", "s", "p", "l", "i", "t", "s" >>,
      << "c", "a", "p", "i", "t", "a", "l", " ", "g", "a", "i", "n", "s" >> }

-----------------------------------------------------------------------------
(* Tables (pandas.DataFrame): a sequence of columns [label, values], all   *)
(* of one length.                                                          *)

HasCol(df, label) == \E i \in 1..Len(df) : df[i].label = label

\* df[label] of a table that has the column.
Col(df, label) == df[CHOOSE i \in 1..Len(df) : df[i].label = label].values

\* df[label] = values: the column is overwritten in place, or appended.
SetCol(df, label, values) ==
    IF HasCol(df, label)
    THEN [i \in 1..Len(df) |->
            IF df[i].label = label THEN [df[i] EXCEPT !.values = values] ELSE df[i]]
    ELSE Append(df, [label |-> label, values |-> values])

NRows(df) == IF df = <<>> THEN 0 ELSE Len(df[1].values)

\* solve_case that looks the label up as given, without lower().
solve_case_asgiven(df) ==
    [i \in 1..Len(df) |->
        IF df[i].label \in columns_to_standardize
        THEN [df[i] EXCEPT !.label = Capitalize(df[i].label)]
        ELSE df[i]]

\* A new table with the listed labels capitalised; df itself is not changed.
solve_case(df) ==
    [i \in 1..Len(df) |->
        IF Lower(df[i].label) \in columns_to_standardize
        THEN [df[i] EXCEPT !.label = Capitalize(df[i].label)]
        ELSE df[i]]

-----------------------------------------------------------------------------
(* What a call gives back: a series, a table, or a raised exception.       *)

\* The caller's tables carry pandas' default index 0, 1, ..., n-1.
RangeIndex(n) == [i \in 1..n |-> i - 1]

NoResult ==
    [kind |-> "none", err |-> "", series |-> <<>>, index |-> <<>>, frame |-> <<>>]

\* A series on the index of the table it was computed from.
Ok(x) ==
    [kind |-> "series", err |-> "", series |-> x, index |-> RangeIndex(Len(x)),
     frame |-> <<>>]

\* A series whose index is a selection of the table's index.
OkIndexed(x, idx) ==
    [kind |-> "series", err |-> "", series |-> x, index |-> idx, frame |-> <<>>]

\* A single float, not a series.
OkScalar(v) ==
    [kind |-> "scalar", err |-> "", series |-> <<v>>, index |-> <<>>, frame |-> <<>>]

OkFrame(df) ==
    [kind |-> "frame", err |-> "", series |-> <<>>, index |-> <<>>, frame |-> df]

Raise(e) ==
    [kind |-> "error", err |-> e, series |-> <<>>, index |-> <<>>, frame |-> <<>>]

\* solve_case(df) has a Close column; reading it raises KeyError otherwise.
HasClose(df) == HasCol(solve_case(df), L_Close)

\* solve_case(df)['Close']
CloseOf(df) == Col(solve_case(df), L_Close)

-----------------------------------------------------------------------------
(* Exponentially weighted mean: Series.ewm(alpha, adjust).mean(), with     *)
(* pandas' defaults ignore_na = False and min_periods = 0.                 *)

EwmFirst(cur) ==
    [weighted |-> cur, old_wt |-> One, nobs |-> IF IsNaN(cur) THEN 0 ELSE 1]

EwmStep(st, cur, alpha, adjust) ==
    LET new_wt == IF adjust THEN One ELSE alpha
        ow == Mul(st.old_wt, Sub(One, alpha))
    IN  IF ~IsNaN(st.weighted)
        THEN IF ~IsNaN(cur)
             THEN [weighted |->
                      IF st.weighted # cur
                      THEN Div(Add(Mul(ow, st.weighted), Mul(new_wt, cur)),
                               Add(ow, new_wt))
                      ELSE st.weighted,
                   old_wt |-> IF adjust THEN Add(ow, new_wt) ELSE One,
                   nobs |-> st.nobs + 1]
             ELSE [weighted |-> st.weighted, old_wt |-> ow, nobs |-> st.nobs]
        ELSE [weighted |-> cur,
              old_wt |-> st.old_wt,
              nobs |-> st.nobs + (IF IsNaN(cur) THEN 0 ELSE 1)]

RECURSIVE EwmRun(_, _, _, _, _)
EwmRun(x, i, st, alpha, adjust) ==
    IF i > Len(x) THEN <<>>
    ELSE LET nx == IF i = 1 THEN EwmFirst(x[1]) ELSE EwmStep(st, x[i], alpha, adjust)
         IN  <<IF nx.nobs >= 1 THEN nx.weighted ELSE NaN>>
                 \o EwmRun(x, i + 1, nx, alpha, adjust)

EwmMean(x, alpha, adjust) == EwmRun(x, 1, EwmFirst(NaN), alpha, adjust)

\* ewm(span = s): alpha = 2 / (s + 1)
SpanAlpha(span) == Frac(2, span + 1)

-----------------------------------------------------------------------------
(* scipy.stats.linregress(np.arange(len(y)), y)                            *)

LinRegress(y) ==
    LET n == Len(y)
        xs == [i \in 1..n |-> Q(i - 1)]
        xmean == Mean(xs)
        ymean == Mean(y)
        ssxm == Mean([i \in 1..n |-> Mul(Sub(xs[i], xmean), Sub(xs[i], xmean))])
        ssxym == Mean([i \in 1..n |-> Mul(Sub(xs[i], xmean), Sub(y[i], ymean))])
        slope == Div(ssxym, ssxm)
    IN  [slope |-> slope, intercept |-> Sub(ymean, Mul(slope, xmean))]

\* Series.rolling(window).apply(F, raw=True) calls F on each full window;
\* the other positions are NaN.
FullWindow(x, t, w) == Len(RollingObs(x, t, w)) >= w /\ w > 0

-----------------------------------------------------------------------------
(* overlap_studies.py                                                      *)

\* SMA with partial windows allowed: rolling(window, min_periods=1).
SMA_minp1(df, window) ==
    IF ~HasClose(df) THEN Raise("KeyError")
    ELSE LET close == CloseOf(df) IN
        IF window < 0 THEN Raise("ValueError")
        ELSE Ok(RollingMean(close, window, 1))

\* rolling(window) raises ValueError on a negative window.
SMA(df, window) ==
    IF ~HasClose(df) THEN Raise("KeyError")
    ELSE LET close == CloseOf(df) IN
        IF window < 0 THEN Raise("ValueError")
        ELSE Ok(RollingMean(close, window, window))

\* EMA that leaves ewm's adjust at its pandas default, True.
EMA_adjusted(df, span, adjust) ==
    IF ~HasClose(df) THEN Raise("KeyError")
    ELSE LET close == CloseOf(df) IN
        IF span < 1 THEN Raise("ValueError")
        ELSE Ok(EwmMean(close, SpanAlpha(span), TRUE))

\* ewm(span) raises ValueError unless span >= 1.
EMA(df, span, adjust) ==
    IF ~HasClose(df) THEN Raise("KeyError")
    ELSE LET close == CloseOf(df) IN
        IF span < 1 THEN Raise("ValueError")
        ELSE Ok(EwmMean(close, SpanAlpha(span), adjust))

\* DEMA whose second average is the first one again: 2 * ema - ema.
DEMA_once(df, span) ==
    IF ~HasClose(df) THEN Raise("KeyError")
    ELSE LET close == CloseOf(df) IN
        IF span < 1 THEN Raise("ValueError")
        ELSE LET ema == EwmMean(close, SpanAlpha(span), FALSE)
             IN  Ok(SSub(SScale(Q(2), ema), ema))

DEMA(df, span) ==
    IF ~HasClose(df) THEN Raise("KeyError")
    ELSE LET close == CloseOf(df) IN
        IF span < 1 THEN Raise("ValueError")
        ELSE LET ema == EwmMean(close, SpanAlpha(span), FALSE)
             IN  Ok(SSub(SScale(Q(2), ema), EwmMean(ema, SpanAlpha(span), FALSE)))

TEMA(df, span) ==
    IF ~HasClose(df) THEN Raise("KeyError")
    ELSE LET close == CloseOf(df) IN
        IF span < 1 THEN Raise("ValueError")
        ELSE LET ema1 == EwmMean(close, SpanAlpha(span), FALSE)
                 ema2 == EwmMean(ema1, SpanAlpha(span), FALSE)
                 ema3 == EwmMean(ema2, SpanAlpha(span), FALSE)
             IN  Ok(SAdd(SScale(Q(3), SSub(ema1, ema2)), ema3))

T3c1(vfactor) == Neg(Pow(vfactor, 3))

T3c2(vfactor) == Add(Mul(Q(3), Pow(vfactor, 2)), Mul(Q(3), Pow(vfactor, 3)))

T3c3(vfactor) ==
    Sub(Sub(Mul(Q(-6), Pow(vfactor, 2)), Mul(Q(3), vfactor)), Mul(Q(3), Pow(vfactor, 3)))

T3c4(vfactor) ==
    Add(Add(Add(One, Mul(Q(3), vfactor)), Pow(vfactor, 2)), Pow(vfactor, 3))

T3(df, period, vfactor) ==
    IF ~HasClose(df) THEN Raise("KeyError")
    ELSE LET close == CloseOf(df) IN
        IF period < 1 THEN Raise("ValueError")
        ELSE LET ema1 == EwmMean(close, SpanAlpha(period), FALSE)
                 ema2 == EwmMean(ema1, SpanAlpha(period), FALSE)
                 ema3 == EwmMean(ema2, SpanAlpha(period), FALSE)
             IN  Ok(SAdd(SAdd(SAdd(SScale(T3c1(vfactor), ema3),
                                   SScale(T3c2(vfactor), ema2)),
                              SScale(T3c3(vfactor), ema1)),
                         SScale(T3c4(vfactor), EwmMean(close, SpanAlpha(period), FALSE))))

\* The weighted sum divided by the window length instead of the weights' sum.
WeightedMean_divlen(prices) ==
    Div(SumSeq([i \in 1..Len(prices) |-> Mul(prices[i], Q(i))]), Q(Len(prices)))

\* np.dot(prices, weights) / weights.sum() with weights = 1..window
WeightedMean(prices) ==
    Div(SumSeq([i \in 1..Len(prices) |-> Mul(prices[i], Q(i))]),
        SumSeq([i \in 1..Len(prices) |-> Q(i)]))

WMA(df, window) ==
    IF ~HasClose(df) THEN Raise("KeyError")
    ELSE LET close == CloseOf(df) IN
        IF window < 0 THEN Raise("ValueError")
        ELSE Ok([t \in 1..Len(close) |->
                    IF FullWindow(close, t, window)
                    THEN WeightedMean(WindowAt(close, t, window))
                    ELSE NaN])

-----------------------------------------------------------------------------
(* stats.py                                                                *)

STDDEV(df, window) ==
    IF ~HasClose(df) THEN Raise("KeyError")
    ELSE LET close == CloseOf(df) IN
        IF window < 0 THEN Raise("ValueError")
        ELSE Ok(RollingStd(close, window, window))

\* VAR with partial windows allowed: rolling(window, min_periods=1).
VAR_minp1(df, window) ==
    IF ~HasClose(df) THEN Raise("KeyError")
    ELSE LET close == CloseOf(df) IN
        IF window < 0 THEN Raise("ValueError")
        ELSE Ok(RollingVar(close, window, 1))

VAR(df, window) ==
    IF ~HasClose(df) THEN Raise("KeyError")
    ELSE LET close == CloseOf(df) IN
        IF window < 0 THEN Raise("ValueError")
        ELSE Ok(RollingVar(close, window, window))

\* slope * len(x) + intercept
LinRegValue(x) == Add(Mul(LinRegress(x).slope, Q(Len(x))), LinRegress(x).intercept)

LinRegSlope(x) == LinRegress(x).slope

\* The intercept of a fit over x = 1..len instead of 0..len-1.
LinRegIntercept_xfrom1(x) == Sub(LinRegress(x).intercept, LinRegress(x).slope)

LinRegIntercept(x) == LinRegress(x).intercept

LINEARREG(df, window) ==
    IF ~HasClose(df) THEN Raise("KeyError")
    ELSE LET close == CloseOf(df) IN
        IF window < 0 THEN Raise("ValueError")
        ELSE Ok([t \in 1..Len(close) |->
                    IF FullWindow(close, t, window)
                    THEN LinRegValue(WindowAt(close, t, window))
                    ELSE NaN])

LINEARREG_SLOPE(df, window) ==
    IF ~HasClose(df) THEN Raise("KeyError")
    ELSE LET close == CloseOf(df) IN
        IF window < 0 THEN Raise("ValueError")
        ELSE Ok([t \in 1..Len(close) |->
                    IF FullWindow(close, t, window)
                    THEN LinRegSlope(WindowAt(close, t, window))
                    ELSE NaN])

LINEARREG_INTERCEPT(df, window) ==
    IF ~HasClose(df) THEN Raise("KeyError")
    ELSE LET close == CloseOf(df) IN
        IF window < 0 THEN Raise("ValueError")
        ELSE Ok([t \in 1..Len(close) |->
                    IF FullWindow(close, t, window)
                    THEN LinRegIntercept(WindowAt(close, t, window))
                    ELSE NaN])

-----------------------------------------------------------------------------
(* momentum.py                                                             *)

\* (Close / Close.shift(period) - 1) * 100; shift takes any integer.
ROC(df, period) ==
    IF ~HasClose(df) THEN Raise("KeyError")
    ELSE LET close == CloseOf(df) IN
        Ok(SScale(Q(100), SPlus(SDiv(close, Shift(close, period)), Q(-1))))

\* data['Close'].diff(period), on the table as passed (no solve_case).
MOM(df, period) ==
    IF HasCol(df, L_Close) THEN Ok(Diff(Col(df, L_Close), period))
    ELSE Raise("KeyError")

\* np.where(delta > 0, delta, 0) and np.where(delta < 0, -delta, 0)
RSIGain(close) ==
    [i \in 1..Len(close) |->
        IF Gt(Diff(close, 1)[i], Zero) THEN Diff(close, 1)[i] ELSE Zero]

RSILoss(close) ==
    [i \in 1..Len(close) |->
        IF Lt(Diff(close, 1)[i], Zero) THEN Neg(Diff(close, 1)[i]) ELSE Zero]

\* RSI whose averages wait for a full window: rolling(period).
RSI_fullwindow(df, period) ==
    IF ~HasClose(df) THEN Raise("KeyError")
    ELSE LET close == CloseOf(df) IN
        IF period < 1 THEN Raise("ValueError")
        ELSE LET avg_gain == RollingMean(RSIGain(close), period, period)
                 avg_loss == RollingMean(RSILoss(close), period, period)
                 rs == SDiv(avg_gain, avg_loss)
             IN  Ok([i \in 1..Len(close) |->
                        Sub(Q(100), Div(Q(100), Add(One, rs[i])))])

\* rolling(period, min_periods=1) raises ValueError unless period >= 1.
RSI(df, period) ==
    IF ~HasClose(df) THEN Raise("KeyError")
    ELSE LET close == CloseOf(df) IN
        IF period < 1 THEN Raise("ValueError")
        ELSE LET avg_gain == RollingMean(RSIGain(close), period, 1)
                 avg_loss == RollingMean(RSILoss(close), period, 1)
                 rs == SDiv(avg_gain, avg_loss)
             IN  Ok([i \in 1..Len(close) |->
                        Sub(Q(100), Div(Q(100), Add(One, rs[i])))])

BOP(df) ==
    LET d == solve_case(df)
    IN  IF HasCol(d, L_Close) /\ HasCol(d, L_Open) /\ HasCol(d, L_High) /\ HasCol(d, L_Low)
        THEN Ok(SDiv(SSub(Col(d, L_Close), Col(d, L_Open)),
                     SSub(Col(d, L_High), Col(d, L_Low))))
        ELSE Raise("KeyError")

\* DataFrame.max(axis=1): the largest of the values that are not NaN.
Max3(a, b, c) ==
    LET obs == {v \in {a, b, c} : ~IsNaN(v)}
    IN  IF obs = {} THEN NaN
        ELSE CHOOSE m \in obs : \A v \in obs : ~Lt(m, v)

ADX(df, period) ==
    LET d == solve_case(df)
    IN  IF ~(HasCol(d, L_High) /\ HasCol(d, L_Low) /\ HasCol(d, L_Close))
        THEN Raise("KeyError")
        ELSE IF period < 0 THEN Raise("ValueError")
        ELSE
        LET high == Col(d, L_High)
            low == Col(d, L_Low)
            close == Col(d, L_Close)
            n == Len(close)
            hdiff == Diff(high, 1)
            ldiff == Diff(low, 1)
            plus_dm == [i \in 1..n |-> IF Lt(hdiff[i], Zero) THEN Zero ELSE hdiff[i]]
            minus_dm == [i \in 1..n |-> IF Gt(ldiff[i], Zero) THEN Zero ELSE ldiff[i]]
            tr1 == SSub(high, low)
            tr2 == SAbs(SSub(high, Shift(close, 1)))
            tr3 == SAbs(SSub(low, Shift(close, 1)))
            tr == [i \in 1..n |-> Max3(tr1[i], tr2[i], tr3[i])]
            atr == RollingMean(tr, period, period)
            plus_di == SScale(Q(100), SDiv(RollingMean(plus_dm, period, period), atr))
            minus_di == SAbs(SScale(Q(100), SDiv(RollingMean(minus_dm, period, period), atr)))
            dx == SScale(Q(100), SDiv(SAbs(SSub(plus_di, minus_di)),
                                      SAbs(SAdd(plus_di, minus_di))))
        IN  Ok(RollingMean(dx, period, period))

-----------------------------------------------------------------------------
(* price_transform.py                                                      *)

PPLevels(df) ==
    LET high == Shift(Col(df, L_High), 1)
        low == Shift(Col(df, L_Low), 1)
        close == Shift(Col(df, L_Close), 1)
        pivot == SDiv(SAdd(SAdd(high, low), close), [i \in 1..Len(close) |-> Q(3)])
    IN  << [label |-> L_Pivot, values |-> pivot],
           [label |-> L_Resistance1, values |-> SSub(SScale(Q(2), pivot), low)],
           [label |-> L_Support1, values |-> SSub(SScale(Q(2), pivot), high)],
           [label |-> L_Resistance2, values |-> SAdd(pivot, SSub(high, low))],
           [label |-> L_Support2, values |-> SSub(pivot, SSub(high, low))] >>

PPReads(df) == HasCol(df, L_High) /\ HasCol(df, L_Low) /\ HasCol(df, L_Close)

\* The value PP returns: data[['Pivot', ..., 'Support2']].
PP(df) == IF PPReads(df) THEN OkFrame(PPLevels(df)) ELSE Raise("KeyError")

RECURSIVE SetCols(_, _)
SetCols(df, cols) ==
    IF cols = <<>> THEN df
    ELSE SetCols(SetCol(df, cols[1].label, cols[1].values), Tail(cols))

\* The table PP leaves with its caller: data['Pivot'] = pivot, ... are
\* assignments to the table that was passed in.
PPTable(df) == IF PPReads(df) THEN SetCols(df, PPLevels(df)) ELSE df

-----------------------------------------------------------------------------
(* volatility.py                                                           *)

HasHLC(d) == HasCol(d, L_High) /\ HasCol(d, L_Low) /\ HasCol(d, L_Close)

\* The row-wise max(axis=1) of High-Low, |High-Close.shift()| and
\* |Low-Close.shift()|; max skips the missing candidates.
TrueRange(d) ==
    LET high == Col(d, L_High)
        low == Col(d, L_Low)
        close == Col(d, L_Close)
        high_low == SSub(high, low)
        high_prev_close == SAbs(SSub(high, Shift(close, 1)))
        low_prev_close == SAbs(SSub(low, Shift(close, 1)))
    IN  [i \in 1..Len(close) |->
            Max3(high_low[i], high_prev_close[i], low_prev_close[i])]

TRANGE(df) ==
    LET d == solve_case(df)
    IN  IF ~HasHLC(d) THEN Raise("KeyError") ELSE Ok(TrueRange(d))

ATR(df, period) ==
    LET d == solve_case(df)
    IN  IF ~HasHLC(d) THEN Raise("KeyError")
        ELSE IF period < 0 THEN Raise("ValueError")
        ELSE Ok(RollingMean(TrueRange(d), period, period))

-----------------------------------------------------------------------------
(* patterns.py                                                             *)

\* (c1 & c2 & ... & c6).astype(int): a comparison with a missing value is
\* False, and False becomes 0.
CDL3BLACKCROWS(df) ==
    LET d == solve_case(df)
    IN  IF ~(HasCol(d, L_Close) /\ HasCol(d, L_Open)) THEN Raise("KeyError")
        ELSE
        LET close == Col(d, L_Close)
            open == Col(d, L_Open)
        IN  Ok([i \in 1..Len(close) |->
                   IF /\ Lt(Shift(close, 1)[i], Shift(open, 1)[i])
                      /\ Lt(Shift(close, 2)[i], Shift(open, 2)[i])
                      /\ Lt(close[i], open[i])
                      /\ Lt(close[i], Shift(close, 1)[i])
                      /\ Gt(open[i], Shift(close, 1)[i])
                      /\ Lt(close[i], Shift(close, 2)[i])
                   THEN One ELSE Zero])

-----------------------------------------------------------------------------
(* momentum.py: directional movement                                       *)

\* Series.clip(lower=0): values below 0 become 0, NaN stays NaN.
ClipLower0(x) == [i \in 1..Len(x) |-> IF Lt(x[i], Zero) THEN Zero ELSE x[i]]

\* x.where(x > 0, 0): values for which x > 0 is False, NaN among them,
\* become 0.
WherePositive(x) == [i \in 1..Len(x) |-> IF Gt(x[i], Zero) THEN x[i] ELSE Zero]

PLUS_DM(df) ==
    LET d == solve_case(df)
    IN  IF ~HasCol(d, L_High) THEN Raise("KeyError")
        ELSE Ok(WherePositive(ClipLower0(Diff(Col(d, L_High), 1))))

MINUS_DM(df) ==
    LET d == solve_case(df)
    IN  IF ~HasCol(d, L_Low) THEN Raise("KeyError")
        ELSE Ok(WherePositive(ClipLower0(Diff(Col(d, L_Low), 1))))

-----------------------------------------------------------------------------
(* volume.py                                                               *)

\* numpy cumsum
RECURSIVE CumSumFrom(_, _, _)
CumSumFrom(x, i, acc) ==
    IF i > Len(x) THEN <<>>
    ELSE <<Add(acc, x[i])>> \o CumSumFrom(x, i + 1, Add(acc, x[i]))

CumSum(x) == CumSumFrom(x, 1, Zero)

OBV(df) ==
    LET d == solve_case(df)
    IN  IF ~(HasCol(d, L_Close) /\ HasCol(d, L_Volume)) THEN Raise("KeyError")
        ELSE
        LET close == Col(d, L_Close)
            volume == Col(d, L_Volume)
        IN  Ok(CumSum([i \in 1..Len(close) |->
                          IF Gt(close[i], Shift(close, 1)[i]) THEN volume[i]
                          ELSE IF Lt(close[i], Shift(close, 1)[i]) THEN Neg(volume[i])
                          ELSE Zero]))

-----------------------------------------------------------------------------
(* overlap_studies.py: HT_TRENDLINE                                        *)

smooth_const == Frac(962, 10000)

const_2 == Frac(5769, 10000)

\* smooth_price, built from position 1 on; position 0 keeps the 0.0 of
\* np.zeros(n).  sp holds the values so far, the position i is 0-based.
RECURSIVE SmoothPriceFrom(_, _, _)
SmoothPriceFrom(close, i, sp) ==
    IF i >= Len(close) THEN sp
    ELSE IF i < 5 THEN SmoothPriceFrom(close, i + 1, Append(sp, close[i + 1]))
    ELSE SmoothPriceFrom(close, i + 1,
            Append(sp,
                Sub(Add(Add(Mul(smooth_const, close[i + 1]),
                            Mul(Mul(Q(2), Sub(One, smooth_const)), sp[i])),
                        Mul(Sub(One, smooth_const), sp[i - 1])),
                    Mul(const_2, sp[i - 2]))))

SmoothPrice(close) ==
    IF close = <<>> THEN <<>> ELSE SmoothPriceFrom(close, 1, <<Zero>>)

HT_TRENDLINE(df) ==
    IF ~HasClose(df) THEN Raise("KeyError")
    ELSE LET close == CloseOf(df)
             smooth_price == SmoothPrice(close)
         IN  Ok([k \in 1..Len(close) |->
                    IF k = 1 THEN Zero
                    ELSE IF k - 1 < 4 THEN smooth_price[k]
                    ELSE Mul(Frac(1, 2), Add(smooth_price[k], smooth_price[k - 4]))])

-----------------------------------------------------------------------------
(* momentum.py: the indicators that call ADX, AROON, PLUS_DM, MINUS_DM     *)

\* The number of parameters of def ADX(data, period=14), and so on.
ADX_params == 2

AROON_params == 2

PLUS_DM_params == 1

MINUS_DM_params == 1

\* Python raises TypeError on a call that passes more positional arguments
\* than the function has parameters.
TooManyArgs(params, nargs) == nargs > params

\* solve_case(x) of a Series x: a Series has no attribute 'columns'.
solve_case_of_series == Raise("AttributeError")

\* adx = ADX(data['High'], data['Low'], data['Close'], period): the three
\* columns are read, then the call is made.
ADXR(df, period) ==
    LET d == solve_case(df)
    IN  IF ~HasHLC(d) THEN Raise("KeyError")
        ELSE IF TooManyArgs(ADX_params, 4) THEN Raise("TypeError")
        ELSE solve_case_of_series

\* aroon_up, aroon_down = AROON(data['High'], data['Low'], period)
AROONOSC(df, period) ==
    LET d == solve_case(df)
    IN  IF ~(HasCol(d, L_High) /\ HasCol(d, L_Low)) THEN Raise("KeyError")
        ELSE IF TooManyArgs(AROON_params, 3) THEN Raise("TypeError")
        ELSE solve_case_of_series

\* plus_dm = PLUS_DM(data['High'], data['Low']) is the first call; the
\* calls of MINUS_DM and TR after it are not reached.
DX(df, period) ==
    LET d == solve_case(df)
    IN  IF ~(HasCol(d, L_High) /\ HasCol(d, L_Low)) THEN Raise("KeyError")
        ELSE IF TooManyArgs(PLUS_DM_params, 2) THEN Raise("TypeError")
        ELSE solve_case_of_series

PLUS_DI(df, period) ==
    LET d == solve_case(df)
    IN  IF ~(HasCol(d, L_High) /\ HasCol(d, L_Low)) THEN Raise("KeyError")
        ELSE IF TooManyArgs(PLUS_DM_params, 2) THEN Raise("TypeError")
        ELSE solve_case_of_series

\* minus_dm = MINUS_DM(data['Low']): one argument, which MINUS_DM hands to
\* solve_case.
MINUS_DI(df, period) ==
    LET d == solve_case(df)
    IN  IF ~HasCol(d, L_Low) THEN Raise("KeyError")
        ELSE IF TooManyArgs(MINUS_DM_params, 1) THEN Raise("TypeError")
        ELSE solve_case_of_series

-----------------------------------------------------------------------------
(* momentum.py: MFI                                                        *)

RollingSum(x, w, minp) ==
    [t \in 1..Len(x) |->
        LET obs == RollingObs(x, t, w)
        IN  IF Len(obs) >= minp /\ Len(obs) > 0 THEN SumSeq(obs) ELSE NaN]

\* The positions at which a boolean mask is True, in order.
RECURSIVE WhereTrue(_, _)
WhereTrue(mask, i) ==
    IF i > Len(mask) THEN <<>>
    ELSE (IF mask[i] THEN <<i>> ELSE <<>>) \o WhereTrue(mask, i + 1)

\* x[mask]: the rows of x at which the mask is True, under their own labels.
Selected(x, mask) ==
    LET at == WhereTrue(mask, 1)
    IN  [pos |-> at, values |-> [j \in 1..Len(at) |-> x[at[j]]]]

\* The value of a selection at the label of row i, NaN where the selection
\* has no such label (the alignment of a binary operator on two series).
AtLabel(sel, i) ==
    IF \E j \in 1..Len(sel.pos) : sel.pos[j] = i
    THEN sel.values[CHOOSE j \in 1..Len(sel.pos) : sel.pos[j] = i]
    ELSE NaN

MFI(df, period) ==
    LET d == solve_case(df)
    IN  IF ~(HasHLC(d) /\ HasCol(d, L_Volume)) THEN Raise("KeyError")
        ELSE IF period < 0 THEN Raise("ValueError")
        ELSE
        LET n == NRows(d)
            typical_price ==
                SDiv(SAdd(SAdd(Col(d, L_High), Col(d, L_Low)), Col(d, L_Close)),
                     [i \in 1..n |-> Q(3)])
            money_flow == SMul(typical_price, Col(d, L_Volume))
            up == Selected(money_flow,
                     [i \in 1..n |-> Gt(typical_price[i], Shift(typical_price, 1)[i])])
            down == Selected(money_flow,
                     [i \in 1..n |-> Lt(typical_price[i], Shift(typical_price, 1)[i])])
            positive_flow ==
                [pos |-> up.pos, values |-> RollingSum(up.values, period, period)]
            negative_flow ==
                [pos |-> down.pos, values |-> RollingSum(down.values, period, period)]
            rows == WhereTrue([i \in 1..n |->
                        \/ \E j \in 1..Len(up.pos) : up.pos[j] = i
                        \/ \E j \in 1..Len(down.pos) : down.pos[j] = i], 1)
        IN  OkIndexed(
                [j \in 1..Len(rows) |->
                    Div(Mul(Q(100), AtLabel(positive_flow, rows[j])),
                        Add(AtLabel(positive_flow, rows[j]),
                            AtLabel(negative_flow, rows[j])))],
                [j \in 1..Len(rows) |-> rows[j] - 1])

-----------------------------------------------------------------------------
(* overlap_studies.py: SAR and SAREXT                                      *)

\* The loop body with af left at af_reset after a reversal, not incremented.
SARStep_plainreset(st, high, low, af_reset, af_step, af_max) ==
    LET moved == IF st.trend = 1
                 THEN Add(st.sar, Mul(st.af, Sub(high, st.sar)))
                 ELSE Add(st.sar, Mul(st.af, Sub(st.sar, low)))
        flips == IF st.trend = 1 THEN Lt(low, moved) ELSE Gt(high, moved)
        sar == IF ~flips THEN moved ELSE IF st.trend = 1 THEN high ELSE low
        trend == IF flips THEN -st.trend ELSE st.trend
    IN  [sar |-> sar,
         trend |-> trend,
         af |-> IF flips THEN af_reset
                ELSE IF Lt(af_max, Add(st.af, af_step)) THEN af_max
                ELSE Add(st.af, af_step)]

\* The loop body with the reversal tested on sar as it stood before the pass.
SARStep_staletest(st, high, low, af_reset, af_step, af_max) ==
    LET moved == IF st.trend = 1
                 THEN Add(st.sar, Mul(st.af, Sub(high, st.sar)))
                 ELSE Add(st.sar, Mul(st.af, Sub(st.sar, low)))
        flips == IF st.trend = 1 THEN Lt(low, st.sar) ELSE Gt(high, st.sar)
        sar == IF ~flips THEN moved ELSE IF st.trend = 1 THEN high ELSE low
        trend == IF flips THEN -st.trend ELSE st.trend
        af == IF flips THEN af_reset ELSE st.af
    IN  [sar |-> sar,
         trend |-> trend,
         af |-> IF Lt(af_max, Add(af, af_step)) THEN af_max ELSE Add(af, af_step)]

\* One pass of the loop body over the row (high, low); af_reset is the value
\* af takes on a reversal, af_step the increment at the end of the pass.
SARStep(st, high, low, af_reset, af_step, af_max) ==
    LET moved == IF st.trend = 1
                 THEN Add(st.sar, Mul(st.af, Sub(high, st.sar)))
                 ELSE Add(st.sar, Mul(st.af, Sub(st.sar, low)))
        flips == IF st.trend = 1 THEN Lt(low, moved) ELSE Gt(high, moved)
        sar == IF ~flips THEN moved ELSE IF st.trend = 1 THEN high ELSE low
        trend == IF flips THEN -st.trend ELSE st.trend
        af == IF flips THEN af_reset ELSE st.af
    IN  [sar |-> sar,
         trend |-> trend,
         af |-> IF Lt(af_max, Add(af, af_step)) THEN af_max ELSE Add(af, af_step)]

\* sar, trend and af as they stand at the end of the passes i, i+1, ..., n-1
\* (0-based).
RECURSIVE SARLoop(_, _, _, _, _, _, _)
SARLoop(high, low, i, st, af_reset, af_step, af_max) ==
    IF i >= Len(low) THEN <<>>
    ELSE LET nx == SARStep(st, high[i + 1], low[i + 1], af_reset, af_step, af_max)
         IN  <<nx>> \o SARLoop(high, low, i + 1, nx, af_reset, af_step, af_max)

\* The values of sar in a sequence of loop states.
SarOf(states) == [k \in 1..Len(states) |-> states[k].sar]

\* The values sar takes at the end of the passes i, i+1, ..., n-1 (0-based).
SARRun(high, low, i, st, af_reset, af_step, af_max) ==
    SarOf(SARLoop(high, low, i, st, af_reset, af_step, af_max))

\* sar after the loop: the last value it took, or its initial value when the
\* loop made no pass.
SarAfter(run, initial) == IF run = <<>> THEN initial ELSE run[Len(run)]

\* pd.Series(sar_series, index): ValueError unless the list is as long as the
\* index.
SeriesOnIndex(sar_series, n) ==
    IF Len(sar_series) # n THEN Raise("ValueError") ELSE Ok(sar_series)

\* SAR returns the float sar as it stands after the loop.
SAR(df, af, max_af) ==
    LET d == solve_case(df)
    IN  IF ~HasCol(d, L_Low) THEN Raise("KeyError")
        ELSE IF NRows(d) > 1 /\ ~HasCol(d, L_High) THEN Raise("KeyError")
        ELSE
        LET low == Col(d, L_Low)
            high == IF NRows(d) > 1 THEN Col(d, L_High) ELSE low
        IN  OkScalar(SarAfter(SARRun(high, low, 1,
                                     [sar |-> low[1], trend |-> 1, af |-> af],
                                     Frac(2, 100), Frac(2, 100), max_af),
                              low[1]))

\* pd.Series(sar_series, index=data.index) raises ValueError unless the list
\* is as long as the index.
SAREXT(df, af_start, af_increment, af_max) ==
    LET d == solve_case(df)
    IN  IF ~HasCol(d, L_Low) THEN Raise("KeyError")
        ELSE IF NRows(d) > 1 /\ ~HasCol(d, L_High) THEN Raise("KeyError")
        ELSE
        LET low == Col(d, L_Low)
            high == IF NRows(d) > 1 THEN Col(d, L_High) ELSE low
        IN  SeriesOnIndex(SARRun(high, low, 1,
                                 [sar |-> low[1], trend |-> 1, af |-> af_start],
                                 af_start, af_increment, af_max),
                          NRows(d))

-----------------------------------------------------------------------------
(* overlap_studies.py: the other moving averages, and MA                   *)

\* np.sort
RECURSIVE Insert(_, _)
Insert(v, s) ==
    IF s = <<>> THEN <<v>>
    ELSE IF Lt(s[1], v) THEN <<s[1]>> \o Insert(v, Tail(s))
    ELSE <<v>> \o s

RECURSIVE Sort(_)
Sort(s) == IF s = <<>> THEN <<>> ELSE Insert(s[1], Sort(Tail(s)))

\* np.mean(np.sort(x)[-window//2:]): -window//2 is (-window)//2, and the
\* slice [k:] with k < 0 starts k places before the end.
TopHalfMean(x, window) ==
    LET k == (-window) \div 2
    IN  Mean(SubSeq(Sort(x), Len(x) + k + 1, Len(x)))

\* data['Close'] of the table as passed (no solve_case).
TRIMA(df, window) ==
    IF ~HasCol(df, L_Close) THEN Raise("KeyError")
    ELSE LET close == Col(df, L_Close) IN
        IF window < 0 THEN Raise("ValueError")
        ELSE Ok([t \in 1..Len(close) |->
                    IF FullWindow(close, t, window)
                    THEN TopHalfMean(WindowAt(close, t, window), window)
                    ELSE NaN])

\* data['Close'].ewm(span=window, adjust=False).mean()
SMMA(df, window) ==
    IF ~HasClose(df) THEN Raise("KeyError")
    ELSE LET close == CloseOf(df) IN
        IF window < 1 THEN Raise("ValueError")
        ELSE Ok(EwmMean(close, SpanAlpha(window), FALSE))

\* KAMA's smoothing constant: change = Close.diff(window).abs(), volatility =
\* Close.diff().abs().rolling(window).sum(), er = change / volatility and
\* sc = (er * (2/(fast_ema+1) - 2/(slow_ema+1)) + 2/(slow_ema+1)) ** 2.
KAMA_sc(close, window, fast_ema, slow_ema) ==
    LET change == SAbs(Diff(close, window))
        volatility == RollingSum(SAbs(Diff(close, 1)), window, window)
        er == SDiv(change, volatility)
        fast == Frac(2, fast_ema + 1)
        slow == Frac(2, slow_ema + 1)
    IN  [t \in 1..Len(close) |->
            Pow(Add(Mul(er[t], Sub(fast, slow)), slow), 2)]

\* rolling(window) raises ValueError on a negative window; 2/(fast_ema+1) is
\* a division of Python numbers; ewm(alpha=sc) is given the Series sc, and
\* its check "alpha <= 0 or alpha > 1" raises ValueError (the truth value of
\* a Series is ambiguous).
KAMA(df, window, fast_ema, slow_ema) ==
    IF ~HasClose(df) THEN Raise("KeyError")
    ELSE IF window < 0 THEN Raise("ValueError")
    ELSE IF fast_ema + 1 = 0 \/ slow_ema + 1 = 0 THEN Raise("ZeroDivisionError")
    ELSE Raise("ValueError")

\* rolling(window=periods).mean()
MAVP(df, periods) ==
    IF ~HasClose(df) THEN Raise("KeyError")
    ELSE LET close == CloseOf(df) IN
        IF periods < 0 THEN Raise("ValueError")
        ELSE Ok(RollingMean(close, periods, periods))

\* data['Close'].ewm(span=10, adjust=False).mean()
MAMA(df) ==
    IF ~HasClose(df) THEN Raise("KeyError")
    ELSE Ok(EwmMean(CloseOf(df), SpanAlpha(10), FALSE))

\* The defaults of KAMA's parameters.
KAMA_params == [window |-> 10, fast_ema |-> 2, slow_ema |-> 30]

\* The strings of the case clauses of MA's match statement.
method_names ==
    [ sma |-> << "s", "m", "a" >>,
      ema |-> << "e", "m", "a" >>,
      wma |-> << "w", "m", "a" >>,
      trima |-> << "t", "r", "i", "m", "a" >>,
      tema |-> << "t", "e", "m", "a" >>,
      dema |-> << "d", "e", "m", "a" >>,
      kama |-> << "k", "a", "m", "a" >>,
      t3 |-> << "t", "3" >>,
      mavp |-> << "m", "a", "v", "p" >>,
      mama |-> << "m", "a", "m", "a" >>,
      smma |-> << "s", "m", "m", "a" >>,
      ht_trendline |-> << "h", "t", "_", "t", "r", "e", "n", "d", "l", "i", "n", "e" >> ]

\* T3's default vfactor=0.7
T3_vfactor == Frac(7, 10)

\* The case of the match statement that the string m selects.
MACase(df, window, m) ==
    IF m = method_names.sma THEN SMA(df, window)
    ELSE IF m = method_names.ema THEN EMA(df, window, FALSE)
    ELSE IF m = method_names.wma THEN WMA(df, window)
    ELSE IF m = method_names.trima THEN TRIMA(df, window)
    ELSE IF m = method_names.tema THEN TEMA(df, window)
    ELSE IF m = method_names.dema THEN DEMA(df, window)
    ELSE IF m = method_names.kama
         THEN KAMA(df, window, KAMA_params.fast_ema, KAMA_params.slow_ema)
    ELSE IF m = method_names.t3 THEN T3(df, window, T3_vfactor)
    ELSE IF m = method_names.mavp THEN MAVP(df, window)
    ELSE IF m = method_names.mama THEN MAMA(df)
    ELSE IF m = method_names.smma THEN SMMA(df, window)
    ELSE IF m = method_names.ht_trendline THEN HT_TRENDLINE(df)
    ELSE Raise("ValueError")

\* MA that matches the method string as given, without lower().
MA_asgiven(df, window, method) == MACase(df, window, method)

\* match method.lower()
MA(df, window, method) == MACase(df, window, Lower(method))

-----------------------------------------------------------------------------
(* price_transform.py: none of these calls solve_case                      *)

AVGPRICE(df) ==
    IF ~HasHLC(df) THEN Raise("KeyError")
    ELSE Ok(SDiv(SAdd(SAdd(Col(df, L_High), Col(df, L_Low)), Col(df, L_Close)),
                 [i \in 1..NRows(df) |-> Q(3)]))

MEDPRICE(df) ==
    IF ~(HasCol(df, L_High) /\ HasCol(df, L_Low)) THEN Raise("KeyError")
    ELSE Ok(SDiv(SAdd(Col(df, L_High), Col(df, L_Low)), [i \in 1..NRows(df) |-> Q(2)]))

TYPPRICE(df) ==
    IF ~HasHLC(df) THEN Raise("KeyError")
    ELSE Ok(SDiv(SAdd(SAdd(Col(df, L_High), Col(df, L_Low)), Col(df, L_Close)),
                 [i \in 1..NRows(df) |-> Q(3)]))

WCLPRICE(df) ==
    IF ~HasHLC(df) THEN Raise("KeyError")
    ELSE Ok(SDiv(SAdd(SAdd(Col(df, L_High), SScale(Q(2), Col(df, L_Low))),
                      Col(df, L_Close)),
                 [i \in 1..NRows(df) |-> Q(4)]))

-----------------------------------------------------------------------------
(* momentum.py: MACD, MACDEXT and MACDFIX                                  *)

\* A tuple of series; no item of it carries a label.
OkTuple(items) ==
    [kind |-> "tuple", err |-> "", series |-> <<>>, index |-> <<>>,
     frame |-> [i \in 1..Len(items) |-> [label |-> <<>>, values |-> items[i]]]]

\* The defaults of the three periods, the same in MACD and MACDEXT.
MACD_params == [fast_period |-> 12, slow_period |-> 26, signal_period |-> 9]

L_MACD == << "M", "A", "C", "D" >>

L_Signal_Line == << "S", "i", "g", "n", "a", "l", "_", "L", "i", "n", "e" >>

L_MACD_Histogram ==
    << "M", "A", "C", "D", "_", "H", "i", "s", "t", "o", "g", "r", "a", "m" >>

\* The three lines, given the MACD line and its signal line.
MACDLines(macd, signal_line) == << macd, signal_line, SSub(macd, signal_line) >>

\* macd = fast - slow, signal_line = macd.ewm(span=signal_period).mean() and
\* macd_histogram = macd - signal_line.
MACDOf(macd, signal_period, adjust) ==
    MACDLines(macd, EwmMean(macd, SpanAlpha(signal_period), adjust))

\* pd.DataFrame({'MACD': ..., 'Signal_Line': ..., 'MACD_Histogram': ...})
MACDFrame(lines) ==
    OkFrame(<< [label |-> L_MACD, values |-> lines[1]],
               [label |-> L_Signal_Line, values |-> lines[2]],
               [label |-> L_MACD_Histogram, values |-> lines[3]] >>)

\* ewm(span=..., adjust=False) on every line
MACD(df, fast_period, slow_period, signal_period) ==
    IF ~HasClose(df) THEN Raise("KeyError")
    ELSE IF fast_period < 1 \/ slow_period < 1 \/ signal_period < 1
    THEN Raise("ValueError")
    ELSE MACDFrame(MACDOf(SSub(EwmMean(CloseOf(df), SpanAlpha(fast_period), FALSE),
                               EwmMean(CloseOf(df), SpanAlpha(slow_period), FALSE)),
                          signal_period, FALSE))

\* ewm(span=...) with adjust left at pandas' default, True; matype is not read.
MACDEXT(df, fastperiod, slowperiod, signalperiod) ==
    IF ~HasClose(df) THEN Raise("KeyError")
    ELSE IF fastperiod < 1 \/ slowperiod < 1 \/ signalperiod < 1
    THEN Raise("ValueError")
    ELSE OkTuple(MACDOf(SSub(EwmMean(CloseOf(df), SpanAlpha(fastperiod), TRUE),
                             EwmMean(CloseOf(df), SpanAlpha(slowperiod), TRUE)),
                        signalperiod, TRUE))

\* macd_line, signal_line, _ = ext
FirstTwo(ext) ==
    IF ext.kind # "tuple" THEN ext
    ELSE OkTuple(<< ext.frame[1].values, ext.frame[2].values >>)

\* MACDEXT(close) with its default periods; the histogram is dropped.
MACDFIX(close) ==
    FirstTwo(MACDEXT(close, MACD_params.fast_period, MACD_params.slow_period,
                     MACD_params.signal_period))

-----------------------------------------------------------------------------
(* valuation.py                                                            *)

\* a <= b on floats; false when either is NaN.
Le(a, b) == Lt(a, b) \/ (a = b /\ ~IsNaN(a))

\* np.rint: the nearest integer, the even one of two that are equally near.
Rint(a) ==
    IF ~IsFinite(a) THEN a
    ELSE LET q == a.n \div a.d
             r == a.n % a.d
         IN  IF 2 * r < a.d THEN Q(q)
             ELSE IF 2 * r > a.d THEN Q(q + 1)
             ELSE IF q % 2 = 0 THEN Q(q) ELSE Q(q + 1)

\* np.round(x, decimals) = rint(x * 10**decimals) / 10**decimals
Round(x, decimals) ==
    Div(Rint(Mul(x, Pow(Q(10), decimals))), Pow(Q(10), decimals))

DDM_VALUE(expected_dividend, dividend_growth_rate, discount_rate) ==
    IF \/ Le(expected_dividend, Zero)
       \/ Lt(dividend_growth_rate, Zero)
       \/ Le(discount_rate, Zero)
    THEN Raise("ValueError")
    ELSE IF Le(discount_rate, dividend_growth_rate) THEN Raise("ValueError")
    ELSE LET ddm_value ==
                 Div(expected_dividend, Sub(discount_rate, dividend_growth_rate))
         IN  OkScalar(Round(ddm_value, 2))

-----------------------------------------------------------------------------
(* patterns.py: CDLADVANCEBLOCK, CDLDARKCLOUDCOVER, CDLDOJI and            *)
(* CDLSTICKSANDWICH                                                        *)

\* a == b on floats; false when either is NaN.
Eq(a, b) == a = b /\ ~IsNaN(a)

CDLADVANCEBLOCK(df) ==
    LET d == solve_case(df)
    IN  IF ~(HasCol(d, L_Close) /\ HasCol(d, L_Open)) THEN Raise("KeyError")
        ELSE
        LET close == Col(d, L_Close)
            open == Col(d, L_Open)
        IN  Ok([i \in 1..Len(close) |->
                   IF /\ Lt(Shift(close, 2)[i], Shift(open, 2)[i])
                      /\ Lt(Shift(close, 1)[i], Shift(open, 1)[i])
                      /\ Gt(close[i], open[i])
                      /\ Gt(Shift(open, 1)[i], close[i])
                      /\ Lt(close[i], open[i])
                   THEN One ELSE Zero])

CDLDARKCLOUDCOVER(df) ==
    LET d == solve_case(df)
    IN  IF ~(HasCol(d, L_Close) /\ HasCol(d, L_Open)) THEN Raise("KeyError")
        ELSE
        LET close == Col(d, L_Close)
            open == Col(d, L_Open)
        IN  Ok([i \in 1..Len(close) |->
                   IF /\ Gt(Shift(close, 1)[i], Shift(open, 1)[i])
                      /\ Gt(open[i], close[i])
                      /\ Lt(close[i], Shift(open, 1)[i])
                      /\ Gt(close[i], open[i])
                      /\ Lt(close[i], open[i])
                   THEN One ELSE Zero])

CDLDOJI(df) ==
    LET d == solve_case(df)
    IN  IF ~(HasCol(d, L_Close) /\ HasCol(d, L_Open)
                /\ HasCol(d, L_High) /\ HasCol(d, L_Low))
        THEN Raise("KeyError")
        ELSE
        LET close == Col(d, L_Close)
            open == Col(d, L_Open)
            high == Col(d, L_High)
            low == Col(d, L_Low)
            body == SScale(Frac(1, 10), SSub(close, open))
        IN  Ok([i \in 1..Len(close) |->
                   IF /\ Eq(close[i], open[i])
                      /\ Lt(Sub(high[i], close[i]), body[i])
                      /\ Lt(Sub(low[i], close[i]), body[i])
                   THEN One ELSE Zero])

CDLSTICKSANDWICH(df) ==
    LET d == solve_case(df)
    IN  IF ~(HasCol(d, L_Close) /\ HasCol(d, L_Open)) THEN Raise("KeyError")
        ELSE
        LET close == Col(d, L_Close)
            open == Col(d, L_Open)
        IN  Ok([i \in 1..Len(close) |->
                   IF /\ Lt(Shift(close, 1)[i], Shift(open, 1)[i])
                      /\ Lt(close[i], open[i])
                      /\ Gt(open[i], Shift(close, 1)[i])
                      /\ Gt(close[i], open[i])
                   THEN One ELSE Zero])

-----------------------------------------------------------------------------
(* options.py: IVBINOMIAL                                                  *)

\* The defaults of IVBINOMIAL's last three parameters.
IVBINOMIAL_params == [steps |-> 100, max_iterations |-> 100, tol |-> Frac(1, 100000)]

\* np.sign on a float
NpSign(a) == IF IsNaN(a) THEN NaN ELSE Q(Sign(a))

\* The value of the tree for risk_free_rate = 0, time_to_expiry > 0 and
\* steps >= 1, on the options whose value needs neither exp nor sqrt: a
\* call with strike 0 (every node pays its price, and p*u + (1-p)*d = 1, so
\* the root is worth price) and a put on a price of 0 (every node pays
\* strike). With sigma = 0, u = d = 1 and p is a division by u - d = 0: p is
\* NaN, and so is every value of the tree.
binomial_option_price(price, strike, is_call, sigma) ==
    IF sigma = Zero THEN NaN
    ELSE IF is_call THEN price
    ELSE strike

\* sigma += 0.001 * np.sign(option_price - price_estimate)
IVNextSigma(sigma, price_estimate, option_price) ==
    Add(sigma, Mul(Frac(1, 1000), NpSign(Sub(option_price, price_estimate))))

-----------------------------------------------------------------------------
(* The tables a caller may hold.                                           *)

Prices == {Q(v) : v \in 0..MaxPrice}

PriceSeqs == UNION {[1..n -> Prices] : n \in 1..MaxLen}

\* The close prices of the end-to-end scenario.
ScenarioClose ==
    << Q(10), Q(11), Q(12), Q(11), Q(10), Q(9), Q(10), Q(11), Q(12), Q(13) >>

\* Close[i] = 2*i + 3 at the 0-based position i.
LinearClose(n) == [i \in 1..n |-> Q(2 * (i - 1) + 3)]

\* A constant series of value v.
ConstClose(v, n) == [i \in 1..n |-> v]

CloseSeqs ==
    PriceSeqs
        \cup {ScenarioClose}
        \cup {LinearClose(n) : n \in 1..MaxLinLen}
        \cup {ConstClose(v, n) : v \in Prices, n \in 1..MaxConstLen}

CloseTable(label, close) == << [label |-> label, values |-> close] >>

\* A candle: Low <= min(Open, Close) and max(Open, Close) <= High.
Candles ==
    {c \in [o : 0..MaxCandle, h : 0..MaxCandle, l : 0..MaxCandle, c : 0..MaxCandle] :
        c.l <= c.o /\ c.l <= c.c /\ c.o <= c.h /\ c.c <= c.h}

CandleSeqs == UNION {[1..n -> Candles] : n \in 1..MaxRows}

\* The candles the four detectors are named after: a doji with both shadows;
\* a white candle and a black one that opens above it and closes inside its
\* body; three white candles with shrinking bodies; a white candle between
\* two black ones that close at the same price.
ShapedCandleSeqs ==
    { << [o |-> 1, h |-> 2, l |-> 0, c |-> 1] >>,
      << [o |-> 0, h |-> 2, l |-> 0, c |-> 2], [o |-> 3, h |-> 3, l |-> 1, c |-> 1] >>,
      << [o |-> 0, h |-> 3, l |-> 0, c |-> 3], [o |-> 2, h |-> 4, l |-> 2, c |-> 4],
         [o |-> 4, h |-> 5, l |-> 4, c |-> 5] >>,
      << [o |-> 3, h |-> 3, l |-> 1, c |-> 1], [o |-> 2, h |-> 4, l |-> 2, c |-> 4],
         [o |-> 5, h |-> 5, l |-> 1, c |-> 1] >> }

OHLCTable(rows, lower) ==
    LET lab(l) == IF lower THEN Lower(l) ELSE l
    IN  << [label |-> lab(L_Open), values |-> [i \in 1..Len(rows) |-> Q(rows[i].o)]],
           [label |-> lab(L_High), values |-> [i \in 1..Len(rows) |-> Q(rows[i].h)]],
           [label |-> lab(L_Low), values |-> [i \in 1..Len(rows) |-> Q(rows[i].l)]],
           [label |-> lab(L_Close), values |-> [i \in 1..Len(rows) |-> Q(rows[i].c)]] >>

\* A row of High and Low prices, Low <= High.
HLRows == {r \in [h : 0..MaxHL, l : 0..MaxHL] : r.l <= r.h}

\* A table with the columns High and Low.
HLTable(rows) ==
    << [label |-> L_High, values |-> [i \in 1..Len(rows) |-> Q(rows[i].h)]],
       [label |-> L_Low, values |-> [i \in 1..Len(rows) |-> Q(rows[i].l)]] >>

\* Tables with the one column Close (lower-case on some of them).
CloseTables ==
    {CloseTable(L_Close, s) : s \in CloseSeqs}
        \cup {CloseTable(Lower(L_Close), LinearClose(n)) : n \in 1..MaxLinLen}

\* Tables of candles, labelled Open, High, Low, Close or open, high, low, close.
OHLCTables ==
    {OHLCTable(r, lower) : r \in CandleSeqs \cup ShapedCandleSeqs, lower \in BOOLEAN}

\* Tables of candles with a Volume column, the same volume on every row.
OHLCVTable(rows, volume) ==
    Append(OHLCTable(rows, FALSE),
           [label |-> L_Volume, values |-> [i \in 1..Len(rows) |-> Q(volume)]])

\* The sequences of n candles.
CandleSeqsOfLen(n) == [1..n -> Candles]

\* Column labels in several spellings, and one label solve_case does not list.
ColLabels ==
    { << "c", "l", "o", "s", "e" >>,
      << "C", "L", "O", "S", "E" >>,
      << "o", "P", "e", "N" >>,
      << "H", "I", "G", "H" >>,
      << "l", "o", "w" >>,
      << "V", "O", "L", "U", "M", "E" >>,
      << "d", "a", "t", "e" >>,
      << "s", "t", "o", "c", "k", " ", "s", "p", "l", "i", "t", "s" >>,
      << "C", "A", "P", "I", "T", "A", "L", " ", "G", "A", "I", "N", "S" >>,
      << "D", "I", "V", "I", "D", "E", "N", "D", "S" >>,
      << "A", "d", "j", " ", "C", "l", "o", "s", "e" >> }

\* Tables of up to MaxCols columns with different labels and one row; the
\* column at place i holds the value i.
LabelTables ==
    UNION {{[i \in 1..n |-> [label |-> f[i], values |-> <<Q(i)>>]] :
               f \in {g \in [1..n -> ColLabels] :
                         \A i, j \in 1..n : i # j => g[i] # g[j]}} :
           n \in 1..MaxCols}

\* The method strings a caller may pass to MA.
Methods ==
    { method_names.sma, method_names.ema, method_names.wma, method_names.trima,
      method_names.tema, method_names.dema, method_names.kama, method_names.t3,
      method_names.mavp, method_names.mama, method_names.smma,
      method_names.ht_trendline,
      << "S", "M", "A" >>,
      << "E", "m", "a" >>,
      << "T", "3" >>,
      << "H", "T", "_", "T", "R", "E", "N", "D", "L", "I", "N", "E" >>,
      << "x", "y", "z" >>,
      <<  >> }

\* SAR's acceleration factor (0.02 is the default) and its default maximum.
AFs == {Frac(2, 100), Frac(1, 10)}

MaxAF == Frac(2, 10)

\* SAREXT's af_increment (0.02 is the default).
AFIncrements == {Zero, Frac(2, 100), Frac(1, 10)}

\* KAMA's fast_ema and slow_ema: the defaults, and a fast_ema of 0.
FastEMAs == {0, KAMA_params.fast_ema}

SlowEMAs == {KAMA_params.slow_ema}

\* MACD's fast, slow and signal periods: the defaults and two short ones.
MACDPeriods ==
    { << MACD_params.fast_period, MACD_params.slow_period, MACD_params.signal_period >>,
      << 1, 2, 1 >>,
      << 2, 3, 2 >> }

\* DDM_VALUE's arguments: dividends per share, and rates.
Dividends == {Zero, One, Frac(5, 2)}

GrowthRates == {Frac(-1, 100), Zero, Frac(2, 100), Frac(5, 100)}

DiscountRates == {Zero, Frac(5, 100), Frac(8, 100)}

\* IVBINOMIAL's options: calls with strike 0 and puts on a price of 0.
Options ==
    {[price |-> Q(v), strike |-> Zero, is_call |-> TRUE] : v \in {5, 100}}
        \cup {[price |-> Zero, strike |-> Q(v), is_call |-> FALSE] : v \in {5, 100}}

\* Market prices of the option, below, at and above the values of the tree.
OptionPrices == {Zero, Q(4), Q(5), Q(6), Q(100), Q(150)}

IterationLimits == {0, 1, IVBINOMIAL_params.max_iterations, MaxIterations}

Tolerances == {IVBINOMIAL_params.tol, Zero}

\* The parameters a caller may pass.
Periods == -1..MaxWindow

Windows == 1..MaxWindow

FitWindows == 2..MaxWindow

\* The spans DEMA is called with: the windows, and a span of 5.
Spans == Windows \cup {5}

\* T3's volume factor; 7/10 is the default.
VFactors == {Zero, Frac(1, 2), Frac(7, 10), One}

-----------------------------------------------------------------------------
(* The caller: it calls one indicator on its table, takes the result,      *)
(* and may call again.                                                     *)

\* IVBINOMIAL's locals while its for loop runs: i is the number of passes
\* begun, evaluations the number of calls of binomial_option_price, and
\* within_tol tells that the loop ended by break.
NoLoop == [i |-> 0, sigma |-> Zero, evaluations |-> 0, within_tol |-> FALSE]

NoCall ==
    [fn |-> "none", period |-> 0, vfactor |-> Zero, method |-> <<>>, af |-> Zero,
     args |-> <<>>]

Init ==
    /\ data \in CloseTables
    /\ pc = "idle"
    /\ call = NoCall
    /\ result = NoResult
    /\ loop = NoLoop

\* A call of a function that only reads the table it is given.
InvokeCall(c, value) ==
    /\ pc = "idle"
    /\ pc' = "returned"
    /\ call' = c
    /\ result' = value
    /\ data' = data
    /\ loop' = loop

Invoke(fn, period, vfactor, value) ==
    InvokeCall([NoCall EXCEPT !.fn = fn, !.period = period, !.vfactor = vfactor], value)

CallSMA == \E w \in Periods : Invoke("SMA", w, Zero, SMA(data, w))

CallEMA == \E s \in Periods : Invoke("EMA", s, Zero, EMA(data, s, FALSE))

CallDEMA == \E s \in Spans : Invoke("DEMA", s, Zero, DEMA(data, s))

CallTEMA == \E s \in Windows : Invoke("TEMA", s, Zero, TEMA(data, s))

CallT3 ==
    /\ NRows(data) <= MaxT3Len
    /\ \E p \in Windows, vf \in VFactors : Invoke("T3", p, vf, T3(data, p, vf))

CallWMA == \E w \in Windows : Invoke("WMA", w, Zero, WMA(data, w))

CallSTDDEV == \E w \in Windows : Invoke("STDDEV", w, Zero, STDDEV(data, w))

CallVAR == \E w \in Windows : Invoke("VAR", w, Zero, VAR(data, w))

CallLINEARREG == \E w \in FitWindows : Invoke("LINEARREG", w, Zero, LINEARREG(data, w))

CallLINEARREG_SLOPE ==
    \E w \in FitWindows : Invoke("LINEARREG_SLOPE", w, Zero, LINEARREG_SLOPE(data, w))

CallLINEARREG_INTERCEPT ==
    \E w \in FitWindows :
        Invoke("LINEARREG_INTERCEPT", w, Zero, LINEARREG_INTERCEPT(data, w))

CallROC == \E p \in Periods : Invoke("ROC", p, Zero, ROC(data, p))

CallMOM == \E p \in Periods : Invoke("MOM", p, Zero, MOM(data, p))

CallRSI == \E p \in Periods : Invoke("RSI", p, Zero, RSI(data, p))

CallBOP == Invoke("BOP", 0, Zero, BOP(data))

CallADX == \E p \in Windows : Invoke("ADX", p, Zero, ADX(data, p))

CallTRANGE == Invoke("TRANGE", 0, Zero, TRANGE(data))

CallATR == \E p \in Windows : Invoke("ATR", p, Zero, ATR(data, p))

CallCDL3BLACKCROWS == Invoke("CDL3BLACKCROWS", 0, Zero, CDL3BLACKCROWS(data))

CallCDLADVANCEBLOCK == Invoke("CDLADVANCEBLOCK", 0, Zero, CDLADVANCEBLOCK(data))

CallCDLDARKCLOUDCOVER ==
    Invoke("CDLDARKCLOUDCOVER", 0, Zero, CDLDARKCLOUDCOVER(data))

CallCDLDOJI == Invoke("CDLDOJI", 0, Zero, CDLDOJI(data))

CallCDLSTICKSANDWICH == Invoke("CDLSTICKSANDWICH", 0, Zero, CDLSTICKSANDWICH(data))

CallPLUS_DM == Invoke("PLUS_DM", 0, Zero, PLUS_DM(data))

CallMINUS_DM == Invoke("MINUS_DM", 0, Zero, MINUS_DM(data))

CallOBV == Invoke("OBV", 0, Zero, OBV(data))

CallHT_TRENDLINE ==
    /\ NRows(data) <= MaxHTLen
    /\ Invoke("HT_TRENDLINE", 0, Zero, HT_TRENDLINE(data))

CallADXR == \E p \in Windows : Invoke("ADXR", p, Zero, ADXR(data, p))

CallAROONOSC == \E p \in Windows : Invoke("AROONOSC", p, Zero, AROONOSC(data, p))

CallDX == \E p \in Windows : Invoke("DX", p, Zero, DX(data, p))

CallPLUS_DI == \E p \in Windows : Invoke("PLUS_DI", p, Zero, PLUS_DI(data, p))

CallMINUS_DI == \E p \in Windows : Invoke("MINUS_DI", p, Zero, MINUS_DI(data, p))

CallMFI == \E p \in Windows : Invoke("MFI", p, Zero, MFI(data, p))

CallSAR ==
    \E af \in AFs :
        InvokeCall([NoCall EXCEPT !.fn = "SAR", !.af = af, !.args = <<MaxAF>>],
                   SAR(data, af, MaxAF))

CallSAREXT ==
    \E af \in AFs, inc \in AFIncrements :
        InvokeCall([NoCall EXCEPT !.fn = "SAREXT", !.af = af, !.args = <<inc, MaxAF>>],
                   SAREXT(data, af, inc, MaxAF))

CallTRIMA == \E w \in Windows : Invoke("TRIMA", w, Zero, TRIMA(data, w))

CallSMMA == \E w \in Windows : Invoke("SMMA", w, Zero, SMMA(data, w))

CallKAMA ==
    \E w \in Windows, f \in FastEMAs, sl \in SlowEMAs :
        InvokeCall([NoCall EXCEPT !.fn = "KAMA", !.period = w, !.args = <<f, sl>>],
                   KAMA(data, w, f, sl))

CallMACD ==
    /\ NRows(data) <= MaxMACDLen
    /\ \E p \in MACDPeriods :
          InvokeCall([NoCall EXCEPT !.fn = "MACD", !.args = p],
                     MACD(data, p[1], p[2], p[3]))

CallMACDEXT ==
    /\ NRows(data) <= MaxMACDLen
    /\ \E p \in MACDPeriods :
          InvokeCall([NoCall EXCEPT !.fn = "MACDEXT", !.args = p],
                     MACDEXT(data, p[1], p[2], p[3]))

CallMACDFIX ==
    /\ NRows(data) <= MaxMACDLen
    /\ InvokeCall([NoCall EXCEPT !.fn = "MACDFIX"], MACDFIX(data))

\* DDM_VALUE takes three floats and reads no table.
CallDDM_VALUE ==
    \E d \in Dividends, g \in GrowthRates, r \in DiscountRates :
        InvokeCall([NoCall EXCEPT !.fn = "DDM_VALUE", !.args = <<d, g, r>>],
                   DDM_VALUE(d, g, r))

\* IVBINOMIAL takes floats and reads no table; sigma = 0.2 is its initial
\* guess.
CallIVBINOMIAL ==
    /\ pc = "idle"
    /\ \E o \in Options, op \in OptionPrices, m \in IterationLimits, tol \in Tolerances :
          call' = [NoCall EXCEPT !.fn = "IVBINOMIAL", !.period = m,
                                 !.args = <<o.price, o.strike, o.is_call, op, tol>>]
    /\ pc' = "IVBINOMIAL"
    /\ loop' = [NoLoop EXCEPT !.sigma = Frac(2, 10)]
    /\ UNCHANGED <<data, result>>

\* One pass of "for i in range(max_iterations)": the price is evaluated; the
\* loop breaks when it is within tol of option_price, and sigma moves by
\* 0.001 otherwise.
IVPass ==
    /\ pc = "IVBINOMIAL"
    /\ loop.i < call.period
    /\ LET price_estimate ==
               binomial_option_price(call.args[1], call.args[2], call.args[3], loop.sigma)
           option_price == call.args[4]
           tol == call.args[5]
       IN  IF Lt(Abs(Sub(price_estimate, option_price)), tol)
           THEN /\ loop' = [loop EXCEPT !.evaluations = @ + 1, !.within_tol = TRUE]
                /\ pc' = "returned"
                /\ result' = OkScalar(Mul(loop.sigma, Q(100)))
           ELSE /\ loop' = [loop EXCEPT
                               !.i = @ + 1,
                               !.evaluations = @ + 1,
                               !.sigma = IVNextSigma(@, price_estimate, option_price)]
                /\ pc' = pc
                /\ result' = result
    /\ UNCHANGED <<data, call>>

\* The loop has made its max_iterations passes: return sigma * 100.
IVExhausted ==
    /\ pc = "IVBINOMIAL"
    /\ loop.i >= call.period
    /\ pc' = "returned"
    /\ result' = OkScalar(Mul(loop.sigma, Q(100)))
    /\ UNCHANGED <<data, call, loop>>

CallMA ==
    /\ NRows(data) <= MaxMALen
    /\ \E w \in Windows, m \in Methods :
          InvokeCall([NoCall EXCEPT !.fn = "MA", !.period = w, !.method = m],
                     MA(data, w, m))

CallAVGPRICE == Invoke("AVGPRICE", 0, Zero, AVGPRICE(data))

CallMEDPRICE == Invoke("MEDPRICE", 0, Zero, MEDPRICE(data))

CallTYPPRICE == Invoke("TYPPRICE", 0, Zero, TYPPRICE(data))

CallWCLPRICE == Invoke("WCLPRICE", 0, Zero, WCLPRICE(data))

\* solve_case returns the renamed table; the caller's table is not changed.
Callsolve_case == Invoke("solve_case", 0, Zero, OkFrame(solve_case(data)))

\* PP assigns its five columns to the table it was passed.
CallPP ==
    /\ pc = "idle"
    /\ pc' = "returned"
    /\ call' = [NoCall EXCEPT !.fn = "PP"]
    /\ result' = PP(data)
    /\ data' = PPTable(data)
    /\ loop' = loop

Return ==
    /\ pc = "returned"
    /\ pc' = "idle"
    /\ call' = NoCall
    /\ result' = NoResult
    /\ data' = data
    /\ loop' = NoLoop

Next ==
    \/ CallSMA
    \/ CallEMA
    \/ CallDEMA
    \/ CallTEMA
    \/ CallT3
    \/ CallWMA
    \/ CallSTDDEV
    \/ CallVAR
    \/ CallLINEARREG
    \/ CallLINEARREG_SLOPE
    \/ CallLINEARREG_INTERCEPT
    \/ CallROC
    \/ CallMOM
    \/ CallRSI
    \/ CallBOP
    \/ CallADX
    \/ CallPP
    \/ CallTRANGE
    \/ CallATR
    \/ CallCDL3BLACKCROWS
    \/ CallCDLADVANCEBLOCK
    \/ CallCDLDARKCLOUDCOVER
    \/ CallCDLDOJI
    \/ CallCDLSTICKSANDWICH
    \/ CallPLUS_DM
    \/ CallMINUS_DM
    \/ CallOBV
    \/ CallHT_TRENDLINE
    \/ CallADXR
    \/ CallAROONOSC
    \/ CallDX
    \/ CallPLUS_DI
    \/ CallMINUS_DI
    \/ CallMFI
    \/ CallSAR
    \/ CallSAREXT
    \/ CallTRIMA
    \/ CallSMMA
    \/ CallKAMA
    \/ CallMACD
    \/ CallMACDEXT
    \/ CallMACDFIX
    \/ CallDDM_VALUE
    \/ CallMA
    \/ CallAVGPRICE
    \/ CallMEDPRICE
    \/ CallTYPPRICE
    \/ CallWCLPRICE
    \/ Callsolve_case
    \/ Return

Spec == Init /\ [][Next]_vars

InitOHLC ==
    /\ data \in OHLCTables
    /\ pc = "idle"
    /\ call = NoCall
    /\ result = NoResult
    /\ loop = NoLoop

SpecOHLC == InitOHLC /\ [][Next]_vars

InitOHLCV ==
    /\ data \in {OHLCVTable(r, v) :
                    r \in UNION {CandleSeqsOfLen(n) : n \in 1..MaxVRows},
                    v \in 1..MaxVolume}
    /\ pc = "idle"
    /\ call = NoCall
    /\ result = NoResult
    /\ loop = NoLoop

SpecOHLCV == InitOHLCV /\ [][Next]_vars

InitCols ==
    /\ data \in LabelTables
    /\ pc = "idle"
    /\ call = NoCall
    /\ result = NoResult
    /\ loop = NoLoop

SpecCols == InitCols /\ [][Next]_vars

\* A caller that holds a table of High and Low prices and calls SAR and
\* SAREXT on it.
InitSAR ==
    /\ data \in {HLTable(r) : r \in UNION {[1..n -> HLRows] : n \in 1..MaxHLRows}}
    /\ pc = "idle"
    /\ call = NoCall
    /\ result = NoResult
    /\ loop = NoLoop

NextSAR ==
    \/ CallSAR
    \/ CallSAREXT
    \/ Return

SpecSAR == InitSAR /\ [][NextSAR]_vars

\* A caller that holds no table and calls IVBINOMIAL.
InitIV ==
    /\ data = <<>>
    /\ pc = "idle"
    /\ call = NoCall
    /\ result = NoResult
    /\ loop = NoLoop

NextIV ==
    \/ CallIVBINOMIAL
    \/ IVPass
    \/ IVExhausted
    \/ Return

SpecIV == InitIV /\ [][NextIV]_vars

-----------------------------------------------------------------------------
(* Properties.                                                             *)

\* The call of fn has returned a series.
Returned(fn) == pc = "returned" /\ call.fn = fn /\ result.kind = "series"

IsConst(x) == \A i \in 1..Len(x) : x[i] = x[1]

\* (x[lo] + ... + x[hi]) / (hi - lo + 1)
RECURSIVE RangeSum(_, _, _)
RangeSum(x, lo, hi) == IF lo > hi THEN Zero ELSE Add(x[lo], RangeSum(x, lo + 1, hi))

RangeMean(x, lo, hi) == Div(RangeSum(x, lo, hi), Q(hi - lo + 1))

\* C1: on Close = [10, 11, 12, 11, 10, 9, 10, 11, 12, 13], SMA with window 3
\* returns 10 values, the first two missing, the third 11 and the last 12;
\* and every value SMA returns that is not missing is the arithmetic mean of
\* the window Close[t-window+1..t], which lies inside the series.
C1_SMAIsWindowMean ==
    Returned("SMA") =>
        /\ (CloseOf(data) = ScenarioClose /\ call.period = 3) =>
              /\ Len(result.series) = 10
              /\ IsNaN(result.series[1])
              /\ IsNaN(result.series[2])
              /\ result.series[3] = Q(11)
              /\ result.series[10] = Q(12)
        /\ \A t \in 1..Len(result.series) :
              ~IsNaN(result.series[t]) =>
                  /\ t - call.period + 1 >= 1
                  /\ result.series[t] = RangeMean(CloseOf(data), t - call.period + 1, t)

C1_Witness ==
    /\ Returned("SMA")
    /\ CloseOf(data) = ScenarioClose
    /\ call.period = 3
    /\ result.series[10] = Q(12)

\* C2: on an input of n values, none missing, and for a window k >= 2, each
\* of SMA, STDDEV and VAR returns n values, the one at the 0-based position t
\* missing exactly when t < k - 1 (all of them when n < k).
C2_MissingExactlyInWarmUp ==
    (/\ pc = "returned"
     /\ call.fn \in {"SMA", "STDDEV", "VAR"}
     /\ call.period >= 2) =>
        /\ result.kind = "series"
        /\ Len(result.series) = NRows(data)
        /\ \A t \in 1..Len(result.series) :
              IsNaN(result.series[t]) <=> (t - 1 < call.period - 1)
        /\ \A t \in 1..Len(result.series) : ~IsInf(result.series[t])

C2_Witness ==
    /\ Returned("VAR")
    /\ call.period = 3
    /\ NRows(data) > 3
    /\ IsNaN(result.series[2])
    /\ IsFinite(result.series[3])
    /\ ~IsConst(CloseOf(data))

\* C3: EMA with adjust=False on an input without missing values, span >= 1:
\* ema[0] = Close[0], and ema[t] = a*Close[t] + (1-a)*ema[t-1] for t >= 1,
\* with a = 2/(span+1).
C3_EMARecurrence ==
    (pc = "returned" /\ call.fn = "EMA" /\ call.period >= 1) =>
        /\ result.kind = "series"
        /\ Len(result.series) = NRows(data)
        /\ result.series[1] = CloseOf(data)[1]
        /\ \A t \in 2..Len(result.series) :
              result.series[t] =
                  Add(Mul(Frac(2, call.period + 1), CloseOf(data)[t]),
                      Mul(Sub(One, Frac(2, call.period + 1)), result.series[t - 1]))

C3_Witness ==
    /\ Returned("EMA")
    /\ call.period = 3
    /\ CloseOf(data) = ScenarioClose
    /\ result.series[2] = Frac(21, 2)

C5_T3ConstantFixedPoint ==
    (Returned("T3") /\ IsConst(CloseOf(data))) =>
        /\ \A t \in 1..Len(result.series) : result.series[t] = CloseOf(data)[1]
        /\ Add(Add(T3c1(call.vfactor), T3c2(call.vfactor)),
               Add(T3c3(call.vfactor), T3c4(call.vfactor))) = One

\* C6: in ROC, RSI and BOP a zero divisor at position t gives the missing
\* marker at t, and no output is +infinity or -infinity; no exception is
\* raised.
C6_ZeroDivisorGivesMissing ==
    (pc = "returned" /\ call.fn \in {"ROC", "RSI", "BOP"} /\ result.kind = "series") =>
        /\ \A t \in 1..Len(result.series) : ~IsInf(result.series[t])
        /\ call.fn = "ROC" =>
              \A t \in 1..Len(result.series) :
                  Shift(CloseOf(data), call.period)[t] = Zero => IsNaN(result.series[t])
        /\ call.fn = "RSI" =>
              \A t \in 1..Len(result.series) :
                  RollingMean(RSILoss(CloseOf(data)), call.period, 1)[t] = Zero
                      => IsNaN(result.series[t])
        /\ call.fn = "BOP" =>
              \A t \in 1..Len(result.series) :
                  Col(solve_case(data), L_High)[t] = Col(solve_case(data), L_Low)[t]
                      => IsNaN(result.series[t])

\* C7 as claimed: on Close[i] = 2*i + 3, for every window w >= 2 and every
\* position t >= w-1, LINEARREG_SLOPE is 2 and LINEARREG_INTERCEPT is 3.
C7_InterceptIsThree ==
    (/\ pc = "returned"
     /\ call.fn \in {"LINEARREG_SLOPE", "LINEARREG_INTERCEPT"}
     /\ CloseOf(data) = LinearClose(NRows(data))) =>
        /\ result.kind = "series"
        /\ \A t \in call.period..Len(result.series) :
              result.series[t] = (IF call.fn = "LINEARREG_SLOPE" THEN Q(2) ELSE Q(3))

\* C7 as amended: on Close[i] = 2*i + 3, for every window w >= 2 and every
\* position t >= w-1, LINEARREG_SLOPE is 2 and LINEARREG_INTERCEPT is the
\* first value of the window, Close[t-w+1] = 2*(t-w+1) + 3.
C7_InterceptIsWindowStart ==
    (/\ pc = "returned"
     /\ call.fn \in {"LINEARREG_SLOPE", "LINEARREG_INTERCEPT"}
     /\ CloseOf(data) = LinearClose(NRows(data))) =>
        /\ result.kind = "series"
        /\ \A t \in call.period..Len(result.series) :
              result.series[t] =
                  (IF call.fn = "LINEARREG_SLOPE" THEN Q(2)
                   ELSE Q(2 * ((t - 1) - call.period + 1) + 3))

C7_Witness ==
    /\ Returned("LINEARREG_INTERCEPT")
    /\ call.period = 2
    /\ CloseOf(data) = LinearClose(4)
    /\ result.series[2] = Q(3)
    /\ result.series[4] = Q(7)

\* C8: at every full-window position LINEARREG(window=size) is m*(size-1) + b
\* for the least-squares line fitted to the window over x = 0..size-1; on
\* Close[i] = 2*i + 3 it is Close[t].
C8_LinearRegIsEndpoint ==
    Returned("LINEARREG") =>
        /\ \A t \in call.period..Len(result.series) :
              LET fit == LinRegress(WindowAt(CloseOf(data), t, call.period))
              IN  result.series[t] = Add(Mul(fit.slope, Q(call.period - 1)), fit.intercept)
        /\ CloseOf(data) = LinearClose(NRows(data)) =>
              \A t \in call.period..Len(result.series) :
                  result.series[t] = CloseOf(data)[t]

\* C9: a window, period or span <= 0 is rejected with an error; no such call
\* returns a series.
C9_NonPositivePeriodRejected ==
    (/\ pc = "returned"
     /\ call.fn \in {"SMA", "EMA", "ROC", "MOM", "RSI"}
     /\ call.period <= 0) =>
        result.kind = "error"

\* C10: no call changes the caller's table: its columns, labels and values
\* after the call are those before it.
C10_CallerTableUnchanged == [][data' = data]_vars

\* C11: TRANGE is missing at position 0, where the previous close does not
\* exist, and ATR(period) is missing at every position before `period`.
C11_MissingOperandGivesMissing ==
    /\ Returned("TRANGE") => IsNaN(result.series[1])
    /\ (Returned("ATR") /\ call.period >= 1) =>
          \A t \in 1..Len(result.series) :
              t - 1 < call.period => IsNaN(result.series[t])

\* C12: CDL3BLACKCROWS is missing at positions 0 and 1, and PLUS_DM, OBV and
\* HT_TRENDLINE are missing at position 0; none of them is a number there.
C12_WarmUpIsMissing ==
    /\ Returned("CDL3BLACKCROWS") =>
          \A t \in 1..Len(result.series) : t - 1 < 2 => IsNaN(result.series[t])
    /\ (pc = "returned" /\ call.fn \in {"PLUS_DM", "OBV", "HT_TRENDLINE"}) =>
          /\ result.kind = "series"
          /\ IsNaN(result.series[1])

\* C13: on a table with High, Low, Close and Volume and for a period >= 1,
\* ADXR, AROONOSC, DX, PLUS_DI and MINUS_DI return a result; none raises.
C13_DirectionalCallsReturn ==
    (/\ pc = "returned"
     /\ call.fn \in {"ADXR", "AROONOSC", "DX", "PLUS_DI", "MINUS_DI"}
     /\ call.period >= 1
     /\ HasHLC(solve_case(data))
     /\ HasCol(solve_case(data), L_Volume)) =>
        result.kind # "error"

\* C14: SAR and SAREXT return a series of one value per input row, on the
\* input's index.
C14_SAROneValuePerRow ==
    (/\ pc = "returned"
     /\ call.fn \in {"SAR", "SAREXT"}
     /\ HasCol(solve_case(data), L_High)
     /\ HasCol(solve_case(data), L_Low)) =>
        /\ result.kind = "series"
        /\ Len(result.series) = NRows(data)
        /\ result.index = RangeIndex(NRows(data))

\* (High + Low + Close) / 3 of each row.
TypicalPrices(df) ==
    [i \in 1..NRows(df) |->
        Div(Add(Add(Col(df, L_High)[i], Col(df, L_Low)[i]), Col(df, L_Close)[i]), Q(3))]

\* C15: MFI returns one value per input row on the input's index; when the
\* typical price both rises and falls, MFI(period=1) has a value that is not
\* missing; and every value that is not missing lies in [0, 100].
C15_MFIAlignedAndBounded ==
    (/\ pc = "returned"
     /\ call.fn = "MFI"
     /\ call.period >= 1
     /\ HasHLC(data)
     /\ HasCol(data, L_Volume)) =>
        /\ result.kind = "series"
        /\ Len(result.series) = NRows(data)
        /\ result.index = RangeIndex(NRows(data))
        /\ (/\ call.period = 1
            /\ \E i \in 2..NRows(data) : Gt(TypicalPrices(data)[i], TypicalPrices(data)[i - 1])
            /\ \E i \in 2..NRows(data) : Lt(TypicalPrices(data)[i], TypicalPrices(data)[i - 1]))
              => \E t \in 1..Len(result.series) : ~IsNaN(result.series[t])
        /\ \A t \in 1..Len(result.series) :
              ~IsNaN(result.series[t]) =>
                  /\ ~Lt(result.series[t], Zero)
                  /\ ~Gt(result.series[t], Q(100))

\* The canonical price labels, and the four other labels solve_case lists.
PriceLabels == {L_Open, L_High, L_Low, L_Close, L_Volume}

L_Date == << "D", "a", "t", "e" >>

L_Dividends == << "D", "i", "v", "i", "d", "e", "n", "d", "s" >>

L_StockSplits == << "S", "t", "o", "c", "k", " ", "S", "p", "l", "i", "t", "s" >>

L_CapitalGains == << "C", "a", "p", "i", "t", "a", "l", " ", "G", "a", "i", "n", "s" >>

OtherListedLabels == {L_Date, L_Dividends, L_StockSplits, L_CapitalGains}

\* label equals one of the labels in set, compared case-insensitively.
MatchesAny(label, set) == \E c \in set : Lower(c) = Lower(label)

Labels(df) == [i \in 1..Len(df) |-> df[i].label]

\* What solve_case does with Open, High, Low, Close and Volume, with the
\* order and the values of the columns, and when applied twice.
SolveCaseOnPrices ==
    /\ result.kind = "frame"
    /\ Len(result.frame) = Len(data)
    /\ \A i \in 1..Len(data) :
          /\ result.frame[i].values = data[i].values
          /\ MatchesAny(data[i].label, PriceLabels) =>
                /\ result.frame[i].label \in PriceLabels
                /\ Lower(result.frame[i].label) = Lower(data[i].label)
    /\ Labels(solve_case(result.frame)) = Labels(result.frame)

\* C16 as claimed: solve_case maps every spelling of open, high, low, close,
\* volume to Open, High, Low, Close, Volume, leaves the label of every other
\* column unchanged, keeps the order and the values, and is idempotent.
C16_OnlyPricesRenamed ==
    (pc = "returned" /\ call.fn = "solve_case") =>
        /\ SolveCaseOnPrices
        /\ \A i \in 1..Len(data) :
              ~MatchesAny(data[i].label, PriceLabels) =>
                  result.frame[i].label = data[i].label

\* C16 as amended: solve_case maps every spelling of open, high, low, close,
\* volume to Open, High, Low, Close, Volume, leaves unchanged the label of
\* every column that is no spelling of those five nor of date, dividends,
\* stock splits, capital gains, keeps the order and the values, and is
\* idempotent.
C16_UnlistedUnchanged ==
    (pc = "returned" /\ call.fn = "solve_case") =>
        /\ SolveCaseOnPrices
        /\ \A i \in 1..Len(data) :
              ~MatchesAny(data[i].label, PriceLabels \cup OtherListedLabels) =>
                  result.frame[i].label = data[i].label

C16_Witness ==
    /\ pc = "returned"
    /\ call.fn = "solve_case"
    /\ Labels(data) = << << "C", "L", "O", "S", "E" >>,
                        << "A", "d", "j", " ", "C", "l", "o", "s", "e" >> >>
    /\ Labels(result.frame) = << L_Close, << "A", "d", "j", " ", "C", "l", "o", "s", "e" >> >>

\* C17: solve_case renames every spelling of the two-word labels to
\* 'Stock Splits' and 'Capital Gains', and of dividends and date to
\* 'Dividends' and 'Date'.
C17_TwoWordLabels ==
    (pc = "returned" /\ call.fn = "solve_case") =>
        \A i \in 1..Len(data) :
            \A c \in OtherListedLabels :
                Lower(data[i].label) = Lower(c) => result.frame[i].label = c

\* C18: on a table labelled in lower case, TRIMA, MOM, AVGPRICE, MEDPRICE,
\* TYPPRICE, WCLPRICE and PP return what they return on the same table
\* labelled Open, High, Low, Close.
C18_CaseInsensitiveColumns ==
    (pc = "returned") =>
        /\ call.fn = "TRIMA" => result = TRIMA(solve_case(data), call.period)
        /\ call.fn = "MOM" => result = MOM(solve_case(data), call.period)
        /\ call.fn = "AVGPRICE" => result = AVGPRICE(solve_case(data))
        /\ call.fn = "MEDPRICE" => result = MEDPRICE(solve_case(data))
        /\ call.fn = "TYPPRICE" => result = TYPPRICE(solve_case(data))
        /\ call.fn = "WCLPRICE" => result = WCLPRICE(solve_case(data))
        /\ call.fn = "PP" => result = PP(solve_case(data))

\* The function of the documented name, called directly with the window.
DirectCall(df, window, name) ==
    IF name = method_names.sma THEN SMA(df, window)
    ELSE IF name = method_names.ema THEN EMA(df, window, FALSE)
    ELSE IF name = method_names.wma THEN WMA(df, window)
    ELSE IF name = method_names.trima THEN TRIMA(df, window)
    ELSE IF name = method_names.tema THEN TEMA(df, window)
    ELSE IF name = method_names.dema THEN DEMA(df, window)
    ELSE IF name = method_names.kama
         THEN KAMA(df, window, KAMA_params.fast_ema, KAMA_params.slow_ema)
    ELSE IF name = method_names.t3 THEN T3(df, window, T3_vfactor)
    ELSE IF name = method_names.mavp THEN MAVP(df, window)
    ELSE IF name = method_names.mama THEN MAMA(df)
    ELSE SMMA(df, window)

DocumentedMethods ==
    { method_names.sma, method_names.ema, method_names.wma, method_names.trima,
      method_names.tema, method_names.dema, method_names.kama, method_names.t3,
      method_names.mavp, method_names.mama, method_names.smma }

\* C19 as claimed: MA matches method case-insensitively; for a documented
\* name it returns what the function of that name returns when called with
\* the window, and for any other string it raises ValueError.
C19_OthersRaise ==
    (pc = "returned" /\ call.fn = "MA") =>
        IF Lower(call.method) \in DocumentedMethods
        THEN result = DirectCall(data, call.period, Lower(call.method))
        ELSE result = Raise("ValueError")

\* C19 as amended: MA matches method case-insensitively; for a documented
\* name it returns what the function of that name returns when called with
\* the window, for 'ht_trendline' it returns HT_TRENDLINE(data), and for any
\* other string it raises ValueError.
C19_OthersButTrendlineRaise ==
    (pc = "returned" /\ call.fn = "MA") =>
        IF Lower(call.method) \in DocumentedMethods
        THEN result = DirectCall(data, call.period, Lower(call.method))
        ELSE IF Lower(call.method) = method_names.ht_trendline
        THEN result = HT_TRENDLINE(data)
        ELSE result = Raise("ValueError")

C19_Witness ==
    /\ pc = "returned"
    /\ call.fn = "MA"
    /\ call.method = << "E", "m", "a" >>
    /\ call.period = 3
    /\ HasCol(data, L_Close)
    /\ NRows(data) = 3
    /\ ~IsConst(CloseOf(data))
    /\ result = EMA(data, 3, FALSE)
    /\ result.kind = "series"

\* C20: SMMA(window=p) is smma[0] = Close[0] and
\* smma[t] = a*Close[t] + (1-a)*smma[t-1] with a = 1/p.
C20_SMMAIsWilder ==
    (pc = "returned" /\ call.fn = "SMMA" /\ call.period >= 1) =>
        /\ result.kind = "series"
        /\ result.series[1] = CloseOf(data)[1]
        /\ \A t \in 2..Len(result.series) :
              result.series[t] =
                  Add(Mul(Frac(1, call.period), CloseOf(data)[t]),
                      Mul(Sub(One, Frac(1, call.period)), result.series[t - 1]))

\* C21: the smoothing constant sc[t] that KAMA computes is, at every position
\* and for every window, fast_ema and slow_ema, a number in (0, 1]: it is
\* never missing (not while t < window, not when the prices of the window did
\* not move) and never above 1.
C21_SmoothingConstantInUnitInterval ==
    (pc = "returned" /\ call.fn = "KAMA" /\ HasClose(data)) =>
        LET sc == KAMA_sc(CloseOf(data), call.period, call.args[1], call.args[2])
        IN  \A t \in 1..Len(sc) :
                ~IsNaN(sc[t]) /\ Gt(sc[t], Zero) /\ ~Gt(sc[t], One)

\* C22: MACD, MACDEXT and MACDFIX smooth the same way: the MACD line and the
\* signal line that MACDEXT returns for given periods, and those MACDFIX
\* returns for the periods 12, 26 and 9, equal the columns MACD and
\* Signal_Line of MACD's table at every position.
C22_MACDFamilyAgrees ==
    (pc = "returned" /\ call.fn \in {"MACDEXT", "MACDFIX"} /\ result.kind = "tuple") =>
        LET p == IF call.fn = "MACDEXT" THEN call.args
                 ELSE << MACD_params.fast_period, MACD_params.slow_period,
                         MACD_params.signal_period >>
            macd == MACD(data, p[1], p[2], p[3])
        IN  /\ macd.kind = "frame"
            /\ result.frame[1].values = Col(macd.frame, L_MACD)
            /\ result.frame[2].values = Col(macd.frame, L_Signal_Line)

\* C23: for every Close that is not constant and span = 5, the EMA of the EMA
\* of Close differs from the EMA of Close at some position, and at such a
\* position DEMA(Close, 5) differs from EMA(Close, 5).
C23_DoubleSmoothingDiffers ==
    (Returned("DEMA") /\ call.period = 5 /\ ~IsConst(CloseOf(data))) =>
        LET ema == EMA(data, 5, FALSE).series
            ema_of_ema == EMA(CloseTable(L_Close, ema), 5, FALSE).series
        IN  /\ \E t \in 1..Len(ema) : ema_of_ema[t] # ema[t]
            /\ \A t \in 1..Len(ema) :
                  ema_of_ema[t] # ema[t] => result.series[t] # ema[t]

\* DEMA with span 5 has returned on the scenario's prices, and its value at
\* position 1 is not the EMA's.
C23_Witness ==
    /\ Returned("DEMA")
    /\ call.period = 5
    /\ CloseOf(data) = ScenarioClose
    /\ result.series[2] # EMA(data, 5, FALSE).series[2]

\* C24: DDM_VALUE raises ValueError whenever one of expected_dividend,
\* dividend_growth_rate and discount_rate is not positive, and whenever
\* discount_rate is not greater than dividend_growth_rate; otherwise it
\* returns expected_dividend / (discount_rate - dividend_growth_rate) rounded
\* to two decimals.
C24_DDMValidatesItsInputs ==
    (pc = "returned" /\ call.fn = "DDM_VALUE") =>
        LET expected_dividend == call.args[1]
            dividend_growth_rate == call.args[2]
            discount_rate == call.args[3]
            exact == Div(expected_dividend, Sub(discount_rate, dividend_growth_rate))
        IN  IF \/ ~Gt(expected_dividend, Zero)
               \/ ~Gt(dividend_growth_rate, Zero)
               \/ ~Gt(discount_rate, Zero)
               \/ ~Gt(discount_rate, dividend_growth_rate)
            THEN result = Raise("ValueError")
            ELSE /\ result.kind = "scalar"
                 /\ Mul(result.series[1], Q(100)).d = 1
                 /\ ~Gt(Abs(Sub(result.series[1], exact)), Frac(1, 200))

\* C25: CDLDOJI, CDLDARKCLOUDCOVER, CDLADVANCEBLOCK and CDLSTICKSANDWICH can
\* each fire on a well-formed table; in particular CDLDOJI returns 1 at every
\* row with Open = Close and Low < Close < High.
C25_DojiFiresOnDojiCandle ==
    Returned("CDLDOJI") =>
        LET d == solve_case(data)
        IN  \A t \in 1..NRows(d) :
                ( /\ Col(d, L_Open)[t] = Col(d, L_Close)[t]
                  /\ Lt(Col(d, L_Low)[t], Col(d, L_Close)[t])
                  /\ Lt(Col(d, L_Close)[t], Col(d, L_High)[t]) )
                    => result.series[t] = One

\* The positions 1 <= t < period of RSI's result, as places 2 .. period of
\* the series.
RSIWarmUp == 2..(IF call.period < Len(result.series)
                 THEN call.period ELSE Len(result.series))

\* RSI's formula on the gains and losses of the positions 0..t.
RSIOverPrefix(close, i) ==
    Sub(Q(100),
        Div(Q(100),
            Add(One, Div(RangeMean(RSIGain(close), 1, i),
                         RangeMean(RSILoss(close), 1, i)))))

\* C26: RSI's averages have min_periods = 1: for every input and every
\* period >= 1 the output at each position t with 1 <= t < period is computed
\* from the average gain and the average loss over the positions 0..t and is
\* not missing, and every RSI value that is not missing lies in [0, 100].
C26_WarmUpIsNeverMissing ==
    Returned("RSI") =>
        /\ \A i \in RSIWarmUp :
              /\ result.series[i] = RSIOverPrefix(CloseOf(data), i)
              /\ ~IsNaN(result.series[i])
        /\ \A i \in 1..Len(result.series) :
              ~IsNaN(result.series[i]) =>
                  ~Lt(result.series[i], Zero) /\ ~Gt(result.series[i], Q(100))

\* C26, amended: the output at each position t with 1 <= t < period is RSI's
\* formula on the average gain and the average loss over the positions 0..t;
\* it is missing exactly when the prices of 0..t did not move (both averages
\* are 0); every RSI value that is not missing lies in [0, 100].
C26_WarmUpUsesPartialWindows ==
    Returned("RSI") =>
        /\ \A i \in RSIWarmUp :
              /\ result.series[i] = RSIOverPrefix(CloseOf(data), i)
              /\ IsNaN(result.series[i]) <=>
                     IsConst(SubSeq(CloseOf(data), 1, i))
        /\ \A i \in 1..Len(result.series) :
              ~IsNaN(result.series[i]) =>
                  ~Lt(result.series[i], Zero) /\ ~Gt(result.series[i], Q(100))

\* RSI with period 3 has returned 0 at position 1, from the fall of the
\* positions 0..1, and 50 at position 2.
C26_Witness ==
    /\ Returned("RSI")
    /\ call.period = 3
    /\ Len(result.series) >= 3
    /\ result.series[2] = Zero
    /\ result.series[3] = Q(50)

\* A call of SAR or SAREXT has gone through its loop on a table with the
\* columns High and Low.
SARLooped ==
    /\ pc = "returned"
    /\ call.fn \in {"SAR", "SAREXT"}
    /\ HasCol(solve_case(data), L_High)
    /\ HasCol(solve_case(data), L_Low)

SARHigh == Col(solve_case(data), L_High)

SARLow == Col(solve_case(data), L_Low)

\* sar, trend and af before the first pass and after each pass of the call.
SARStates ==
    LET st0 == [sar |-> SARLow[1], trend |-> 1, af |-> call.af]
    IN  <<st0>> \o
        (IF call.fn = "SAR"
         THEN SARLoop(SARHigh, SARLow, 1, st0, Frac(2, 100), Frac(2, 100), call.args[1])
         ELSE SARLoop(SARHigh, SARLow, 1, st0, call.af, call.args[1], call.args[2]))

\* The smaller of two floats, as min(a, b) returns it.
MinOf(a, b) == IF Lt(b, a) THEN b ELSE a

\* C27: for every af and every table of two rows or more, reversals
\* included, SAR(data, af, max_af) is the value sar has after the last pass
\* of SAREXT's loop run with af_start = af, af_increment = 0.02 and
\* af_max = max_af.
C27_SARHonoursAf ==
    (SARLooped /\ call.fn = "SAR" /\ NRows(data) >= 2) =>
        LET ext == SARLoop(SARHigh, SARLow, 1,
                           [sar |-> SARLow[1], trend |-> 1, af |-> call.af],
                           call.af, Frac(2, 100), call.args[1])
        IN  result = OkScalar(ext[Len(ext)].sar)

SARMoved(st, high, low) ==
    IF st.trend = 1
    THEN Add(st.sar, Mul(st.af, Sub(high, st.sar)))
    ELSE Add(st.sar, Mul(st.af, Sub(st.sar, low)))

\* b lies between a and c.
Between(a, b, c) ==
    \/ ~Lt(b, a) /\ ~Gt(b, c)
    \/ ~Lt(b, c) /\ ~Gt(b, a)

\* C29: in the loop of SAR and of SAREXT the trend is always 1 or -1; it
\* starts at 1 with sar = Low[0]; a pass turns it from 1 to -1 exactly when
\* Low[i] is below the sar just moved, and sar is then High[i]; it turns it
\* from -1 to 1 exactly when High[i] is above the sar just moved, and sar is
\* then Low[i]; a pass flips at most once; and after a pass in an uptrend
\* that did not flip, with 0 <= af <= 1, sar lies between the sar before the
\* pass and High[i].
C29_TrendFlips ==
    SARLooped =>
        LET s == SARStates
        IN  /\ s[1].trend = 1
            /\ s[1].sar = SARLow[1]
            /\ \A k \in 1..(Len(s) - 1) :
                  LET high == SARHigh[k + 1]
                      low == SARLow[k + 1]
                      moved == SARMoved(s[k], high, low)
                  IN  /\ s[k + 1].trend \in {1, -1}
                      /\ s[k].trend = 1 =>
                            IF Lt(low, moved)
                            THEN s[k + 1].trend = -1 /\ s[k + 1].sar = high
                            ELSE /\ s[k + 1].trend = 1
                                 /\ s[k + 1].sar = moved
                                 /\ (~Lt(s[k].af, Zero) /\ ~Gt(s[k].af, One))
                                       => Between(s[k].sar, s[k + 1].sar, high)
                      /\ s[k].trend = -1 =>
                            IF Gt(high, moved)
                            THEN s[k + 1].trend = 1 /\ s[k + 1].sar = low
                            ELSE s[k + 1].trend = -1 /\ s[k + 1].sar = moved

\* The loop has turned the trend down in its first pass and up again in its
\* second.
C29_Witness ==
    /\ SARLooped
    /\ Len(SARStates) = 3
    /\ SARStates[2].trend = -1
    /\ SARStates[3].trend = 1

\* C30: IVBINOMIAL's loop ends after at most max_iterations evaluations of
\* the price; the result is always 100 * (0.2 + 0.001 * k) for an integer k
\* with |k| <= max_iterations; with max_iterations = 100 it lies in [10, 30]
\* whatever the option price.
C30_ResultIsOnTheGrid ==
    /\ call.fn = "IVBINOMIAL" => loop.evaluations <= call.period
    /\ (pc = "returned" /\ call.fn = "IVBINOMIAL") =>
          /\ result.kind = "scalar"
          /\ \E k \in (-call.period)..call.period :
                result.series[1] = Mul(Q(100), Add(Frac(2, 10), Frac(k, 1000)))
          /\ call.period = IVBINOMIAL_params.max_iterations =>
                ~Lt(result.series[1], Q(10)) /\ ~Gt(result.series[1], Q(30))

====
